---- MODULE Spec2Model ----
(***************************************************************************)
(* Mastermind: the feedback evaluator (utils/gameLogic.ts) and the         *)
(* solution service built on it (services/SolutionService.ts).             *)
(*                                                                         *)
(* A JavaScript string is modelled as a sequence of tokens: every peg name *)
(* is one token (no peg name contains a comma) and "," is the separator    *)
(* token, so join(',') and split(',') are modelled by what they do.        *)
(* A JavaScript Set<string> is modelled as a duplicate-free sequence: it   *)
(* iterates in insertion order.                                            *)
(***************************************************************************)
EXTENDS Integers, Sequences, FiniteSets, TLC

(***************************************************************************)
(* Bounds of the model.                                                    *)
(***************************************************************************)
\* longest guess / code handed to evaluateGuess
MaxEvalLength == 4
\* longest code length of a solution space, and longest guess / feedback
\* handed to the service
MaxCodeLength == 2
\* most rounds of a series handed to processGuessSeries
MaxRounds == 2

(***************************************************************************)
(* Values.                                                                 *)
(***************************************************************************)
\* the usable colours of the model (four of the six of PegColor)
Colors == {"red", "blue", "green", "yellow"}
\* PegColor: the colours and the 'empty' sentinel
Pegs == Colors \cup {"empty"}
\* FeedbackPegValue
FeedbackPegs == {"correct", "wrongPosition", "incorrect", "empty"}

\* all sequences over S of length lo..hi
SeqsOf(S, lo, hi) == UNION {[1..n -> S] : n \in lo..hi}

\* Array.prototype.filter(p => p === v).length
Count(seq, v) == Len(SelectSeq(seq, LAMBDA p : p = v))

(***************************************************************************)
(* utils/gameLogic.ts                                                      *)
(***************************************************************************)
\* a mutant of sortFeedback: the filter of the 'incorrect' pegs is missing
sortFeedbackNoIncorrect(feedback) ==
    SelectSeq(feedback, LAMBDA peg : peg = "correct")
      \o SelectSeq(feedback, LAMBDA peg : peg = "wrongPosition")
      \o SelectSeq(feedback, LAMBDA peg : peg = "empty")

\* sortFeedback: four filters, concatenated
sortFeedback(feedback) ==
    SelectSeq(feedback, LAMBDA peg : peg = "correct")
      \o SelectSeq(feedback, LAMBDA peg : peg = "wrongPosition")
      \o SelectSeq(feedback, LAMBDA peg : peg = "incorrect")
      \o SelectSeq(feedback, LAMBDA peg : peg = "empty")

\* Array.prototype.findIndex(c => c === v), 1-based; 0 stands for -1
findIndex(arr, v) ==
    IF \E j \in 1..Len(arr) : arr[j] = v
    THEN CHOOSE j \in 1..Len(arr) :
            arr[j] = v /\ \A k \in 1..(j - 1) : arr[k] # v
    ELSE 0

\* a mutant of FirstPass: a matched position is not marked 'checked' in the
\* guess, so the second pass scores it again
RECURSIVE FirstPassNoCheck(_, _, _, _)
FirstPassNoCheck(i, guessTemp, codeTemp, feedback) ==
    IF i > Len(guessTemp)
    THEN [guessTemp |-> guessTemp, codeTemp |-> codeTemp, feedback |-> feedback]
    ELSE IF i <= Len(codeTemp) /\ guessTemp[i] = codeTemp[i]
         THEN FirstPassNoCheck(i + 1, guessTemp,
                               [codeTemp EXCEPT ![i] = "used"],
                               Append(feedback, "correct"))
         ELSE FirstPassNoCheck(i + 1, guessTemp, codeTemp, feedback)

\* evaluateGuess, first loop (from index i on): exact matches; codeTemp[i] is
\* undefined beyond the code's length and then equals no peg
RECURSIVE FirstPass(_, _, _, _)
FirstPass(i, guessTemp, codeTemp, feedback) ==
    IF i > Len(guessTemp)
    THEN [guessTemp |-> guessTemp, codeTemp |-> codeTemp, feedback |-> feedback]
    ELSE IF i <= Len(codeTemp) /\ guessTemp[i] = codeTemp[i]
         THEN FirstPass(i + 1,
                        [guessTemp EXCEPT ![i] = "checked"],
                        [codeTemp EXCEPT ![i] = "used"],
                        Append(feedback, "correct"))
         ELSE FirstPass(i + 1, guessTemp, codeTemp, feedback)

\* a mutant of SecondPass: the code peg found is not marked 'used', so one
\* code peg can credit several guess pegs
RECURSIVE SecondPassNoConsume(_, _, _, _)
SecondPassNoConsume(i, guessTemp, codeTemp, feedback) ==
    IF i > Len(guessTemp)
    THEN feedback
    ELSE IF guessTemp[i] # "checked"
         THEN IF findIndex(codeTemp, guessTemp[i]) # 0
              THEN SecondPassNoConsume(i + 1, guessTemp, codeTemp,
                                       Append(feedback, "wrongPosition"))
              ELSE SecondPassNoConsume(i + 1, guessTemp, codeTemp,
                                       Append(feedback, "incorrect"))
         ELSE SecondPassNoConsume(i + 1, guessTemp, codeTemp, feedback)

\* evaluateGuess, second loop (from index i on): wrong positions
RECURSIVE SecondPass(_, _, _, _)
SecondPass(i, guessTemp, codeTemp, feedback) ==
    IF i > Len(guessTemp)
    THEN feedback
    ELSE IF guessTemp[i] # "checked"
         THEN LET index == findIndex(codeTemp, guessTemp[i])
              IN  IF index # 0
                  THEN SecondPass(i + 1, guessTemp,
                                  [codeTemp EXCEPT ![index] = "used"],
                                  Append(feedback, "wrongPosition"))
                  ELSE SecondPass(i + 1, guessTemp, codeTemp,
                                  Append(feedback, "incorrect"))
         ELSE SecondPass(i + 1, guessTemp, codeTemp, feedback)

\* evaluateGuess: it checks no length and throws nothing
evaluateGuess(guess, code) ==
    LET first == FirstPass(1, guess, code, <<>>)
    IN  sortFeedback(SecondPass(1, first.guessTemp, first.codeTemp, first.feedback))

(***************************************************************************)
(* State.                                                                  *)
(***************************************************************************)
VARIABLES
    solutions,   \* SolutionService.solutions: the Set<string>, in insertion order
    codeLength,  \* SolutionService.codeLength: <<n>>, or <<>> while undefined
    call,        \* the last call made: its arguments, what it returned or threw
    gameBoard,   \* useGameState: the GameBoard held by the hook
    gameMode,    \* useGameState: 'normal' or 'evil'
    gameOver,    \* useGameState: the game is over
    won          \* useGameState: the game was won

vars == <<solutions, codeLength, call, gameBoard, gameMode, gameOver, won>>

\* the state of the game-state hook
hook == <<gameBoard, gameMode, gameOver, won>>

\* no hook is mounted: the service is used on its own
NoHook ==
    /\ gameBoard = <<>>
    /\ gameMode = "normal"
    /\ gameOver = FALSE
    /\ won = FALSE

\* the fields of a call record that a call does not use
NoCall ==
    [op |-> "none", guess |-> <<>>, code |-> <<>>, feedback |-> <<>>,
     colors |-> <<>>, length |-> 0, pre |-> <<>>, out |-> <<>>, ret |-> 0,
     again |-> FALSE, err |-> "none", rows |-> <<>>, mode |-> "none",
     pegs |-> <<>>]

(***************************************************************************)
(* The evaluator on its own: the inputs are drawn, then evaluated.         *)
(***************************************************************************)
EvalInputs == SeqsOf(Colors, 1, MaxEvalLength)

EvalInit ==
    /\ solutions = <<>>
    /\ codeLength = <<>>
    /\ \E guess \in EvalInputs, code \in EvalInputs :
          call = [NoCall EXCEPT !.op = "input", !.guess = guess, !.code = code]
    /\ NoHook

CallEvaluateGuess ==
    /\ call.op = "input"
    /\ call' = [call EXCEPT !.op = "evaluateGuess",
                            !.out = evaluateGuess(call.guess, call.code)]
    /\ UNCHANGED <<solutions, codeLength, hook>>

EvalNext == CallEvaluateGuess

EvalSpec == EvalInit /\ [][EvalNext]_vars

(***************************************************************************)
(* The evaluator's claims, under EvalSpec.                                 *)
(***************************************************************************)
\* the call evaluated a guess against a code of the same length
EvaluatedEqualLength ==
    call.op = "evaluateGuess" /\ Len(call.guess) = Len(call.code)

\* number of positions where guess and code agree
ExactMatches(guess, code) ==
    Cardinality({i \in 1..Len(guess) : guess[i] = code[i]})

\* number of occurrences of colour v in seq
Occurrences(seq, v) == Cardinality({i \in 1..Len(seq) : seq[i] = v})

Min(a, b) == IF a <= b THEN a ELSE b

\* sum over the colours of S of min(occurrences in guess, occurrences in code)
RECURSIVE CommonPegs(_, _, _)
CommonPegs(S, guess, code) ==
    IF S = {} THEN 0
    ELSE LET v == CHOOSE x \in S : TRUE
         IN  Min(Occurrences(guess, v), Occurrences(code, v))
               + CommonPegs(S \ {v}, guess, code)

ScenarioAGuess == <<"red", "red", "blue", "blue">>
ScenarioACode == <<"red", "blue", "green", "yellow">>

\* C1: for a guess and a code of equal length, evaluateGuess returns
\* correct = the number of positions where they agree, wrongPosition = (sum
\* over the colours of the smaller of the two occurrence counts) - correct,
\* incorrect = length - correct - wrongPosition; [A,A,B,B] against [A,B,C,D]
\* gives 1, 1, 2.
C1_EvaluateCounts ==
    EvaluatedEqualLength =>
        LET correct == ExactMatches(call.guess, call.code)
            common == CommonPegs(Colors, call.guess, call.code)
        IN  /\ Count(call.out, "correct") = correct
            /\ Count(call.out, "wrongPosition") = common - correct
            /\ Count(call.out, "incorrect") = Len(call.guess) - common
            /\ ((call.guess = ScenarioAGuess /\ call.code = ScenarioACode)
                  => /\ Count(call.out, "correct") = 1
                     /\ Count(call.out, "wrongPosition") = 1
                     /\ Count(call.out, "incorrect") = 2)

\* scenario A has been evaluated
C1_Witness ==
    /\ call.op = "evaluateGuess"
    /\ call.guess = ScenarioAGuess
    /\ call.code = ScenarioACode
    /\ call.out = <<"correct", "wrongPosition", "incorrect", "incorrect">>

\* C2: evaluating a code against itself gives correct = codeLength,
\* wrongPosition = 0, incorrect = 0.
C2_EvaluateSelf ==
    (call.op = "evaluateGuess" /\ call.guess = call.code) =>
        /\ Count(call.out, "correct") = Len(call.code)
        /\ Count(call.out, "wrongPosition") = 0
        /\ Count(call.out, "incorrect") = 0

\* a code with a repeated colour has been evaluated against itself
C2_Witness ==
    /\ call.op = "evaluateGuess"
    /\ call.guess = call.code
    /\ call.code = <<"red", "blue", "red", "green">>
    /\ call.out = <<"correct", "correct", "correct", "correct">>

\* the three counts of a feedback list
Histogram(feedback) ==
    <<Count(feedback, "correct"), Count(feedback, "wrongPosition"),
      Count(feedback, "incorrect")>>

\* C3: for codes a and b of equal length, evaluateGuess(a, b) and
\* evaluateGuess(b, a) have the same (correct, wrongPosition, incorrect).
C3_EvaluateSymmetric ==
    EvaluatedEqualLength =>
        Histogram(call.out) = Histogram(evaluateGuess(call.code, call.guess))

\* a pair with repeated colours on one side only, scored 0 / 2 / 1
C3_Witness ==
    /\ call.op = "evaluateGuess"
    /\ call.guess = <<"blue", "blue", "red">>
    /\ call.code = <<"red", "green", "blue">>
    /\ Histogram(call.out) = <<0, 2, 1>>

\* C4: for a guess and a code of the same length, correct + wrongPosition +
\* incorrect = codeLength: the feedback has codeLength entries, none 'empty'.
C4_FeedbackSum ==
    EvaluatedEqualLength =>
        /\ Count(call.out, "correct") + Count(call.out, "wrongPosition")
             + Count(call.out, "incorrect") = Len(call.code)
        /\ Len(call.out) = Len(call.code)
        /\ Count(call.out, "empty") = 0

\* a feedback holding all three kinds of peg has been returned
C4_Witness ==
    /\ EvaluatedEqualLength
    /\ Len(call.code) = 4
    /\ Count(call.out, "correct") > 0
    /\ Count(call.out, "wrongPosition") > 0
    /\ Count(call.out, "incorrect") > 0

\* C5: evaluateGuess fails with a LengthMismatch error whenever the guess and
\* the code have different lengths, instead of returning a histogram.
C5_LengthMismatchThrown ==
    (call.op = "evaluateGuess" /\ Len(call.guess) # Len(call.code)) =>
        call.err = "LengthMismatch"

(***************************************************************************)
(* services/SolutionService.ts                                             *)
(***************************************************************************)
\* Array.prototype.join(','): the elements with a "," token between them
codeToString(code) ==
    [i \in 1..(IF Len(code) = 0 THEN 0 ELSE 2 * Len(code) - 1) |->
        IF i % 2 = 1 THEN code[(i + 1) \div 2] ELSE ","]

\* String.prototype.split(','): the pieces between the "," tokens, one more
\* than there are separators (the empty string splits into one empty piece);
\* a piece of one token is that peg, an empty piece is the empty string ""
stringToCode(str) ==
    LET seps == <<0>> \o SelectSeq([i \in 1..Len(str) |-> IF str[i] = "," THEN i ELSE 0],
                                   LAMBDA i : i # 0) \o <<Len(str) + 1>>
        piece(k) == SubSeq(str, seps[k] + 1, seps[k + 1] - 1)
    IN  [k \in 1..(Len(seps) - 1) |->
            IF Len(piece(k)) = 1 THEN piece(k)[1]
            ELSE IF Len(piece(k)) = 0 THEN "" ELSE piece(k)]

\* Array.prototype.sort() on feedback pegs: by string order,
\* "correct" < "empty" < "incorrect" < "wrongPosition"
jsSort(feedback) ==
    SelectSeq(feedback, LAMBDA peg : peg = "correct")
      \o SelectSeq(feedback, LAMBDA peg : peg = "empty")
      \o SelectSeq(feedback, LAMBDA peg : peg = "incorrect")
      \o SelectSeq(feedback, LAMBDA peg : peg = "wrongPosition")

\* a mutant of areFeedbackEqual: only the 'correct' pegs are compared
areFeedbackEqualCorrectOnly(feedback1, feedback2) ==
    /\ Len(feedback1) = Len(feedback2)
    /\ Count(feedback1, "correct") = Count(feedback2, "correct")

\* areFeedbackEqual
areFeedbackEqual(feedback1, feedback2) ==
    IF Len(feedback1) # Len(feedback2) THEN FALSE
    ELSE LET sorted1 == jsSort(feedback1)
             sorted2 == jsSort(feedback2)
         IN  \A index \in 1..Len(sorted1) : sorted1[index] = sorted2[index]

\* new Set(array): the distinct elements, in order of first occurrence
NewSet(arr) ==
    LET firsts == SelectSeq([i \in 1..Len(arr) |-> i],
                            LAMBDA i : \A j \in 1..(i - 1) : arr[j] # arr[i])
    IN  [k \in 1..Len(firsts) |-> arr[firsts[k]]]

\* the recursive closure of generateAllPossibleCodesArray: every completion of
\* current from position on (0-based), trying the colours from index c on
RECURSIVE generate(_, _, _, _, _)
generate(length, colors, current, position, c) ==
    IF position = length THEN <<current>>
    ELSE IF c > Len(colors) THEN <<>>
    ELSE generate(length, colors, [current EXCEPT ![position + 1] = colors[c]],
                  position + 1, 1)
           \o generate(length, colors, current, position, c + 1)

\* a mutant of generateAllPossibleCodesArray: the 'empty' sentinel is not
\* filtered out of the colours
generateAllUnfiltered(length, colors) ==
    generate(length, colors, [i \in 1..length |-> "empty"], 0, 1)

\* generateAllPossibleCodesArray
generateAllPossibleCodesArray(length, colors) ==
    generate(length, SelectSeq(colors, LAMBDA col : col # "empty"),
             [i \in 1..length |-> "empty"], 0, 1)

\* the constructor: the fields of the new service, or the error thrown
constructor(initialSolutions) ==
    LET len == IF Len(initialSolutions) > 0
               THEN <<Len(initialSolutions[1])>> ELSE <<>>
    IN  IF /\ Len(initialSolutions) > 0
           /\ \E i \in 1..Len(initialSolutions) :
                 Len(initialSolutions[i]) # len[1]
        THEN [err |-> "All solutions must have the same length",
              codeLength |-> len, solutions |-> <<>>]
        ELSE [err |-> "none", codeLength |-> len,
              solutions |-> NewSet([i \in 1..Len(initialSolutions) |->
                                       codeToString(initialSolutions[i])])]

\* SolutionService.create(gameRules)
create(gameRules) ==
    constructor(generateAllPossibleCodesArray(gameRules.codeLength,
                                              gameRules.availableColors))

\* get allSolutions
allSolutions(sols) == [i \in 1..Len(sols) |-> stringToCode(sols[i])]

\* a mutant of matchingSolutions: the full enumeration is filtered instead of
\* the current set
matchingSolutionsFromAll(sols, guess, feedback) ==
    SelectSeq(NewSet([i \in 1..Len(generateAllPossibleCodesArray(Len(guess), <<"red", "blue", "green">>)) |->
                        codeToString(generateAllPossibleCodesArray(Len(guess), <<"red", "blue", "green">>)[i])]),
              LAMBDA solution :
        areFeedbackEqual(evaluateGuess(guess, stringToCode(solution)), feedback))

\* a mutant of matchingSolutions: the loop starts at the second solution
matchingSolutionsSkipFirst(sols, guess, feedback) ==
    SelectSeq(SubSeq(sols, 2, Len(sols)), LAMBDA solution :
        areFeedbackEqual(evaluateGuess(guess, stringToCode(solution)), feedback))

\* a mutant of matchingSolutions: when no solution matches, the set is kept
matchingSolutionsKeepIfNone(sols, guess, feedback) ==
    LET kept == SelectSeq(sols, LAMBDA solution :
            areFeedbackEqual(evaluateGuess(guess, stringToCode(solution)), feedback))
    IN  IF Len(kept) = 0 THEN sols ELSE kept

\* applyGuessAndFeedback, its loop: the solutions whose feedback for the guess
\* equals the (sorted) feedback, in the order of the set
matchingSolutions(sols, guess, feedback) ==
    SelectSeq(sols, LAMBDA solution :
        areFeedbackEqual(evaluateGuess(guess, stringToCode(solution)), feedback))

(***************************************************************************)
(* The service: a SolutionService is created, then guesses are applied.    *)
(* call logs the last call until the caller takes its result; a record can *)
(* be applied a second time before that, and any record after it.          *)
(***************************************************************************)
\* the colour lists handed to create: none usable, a colour listed twice, and
\* three colours with the sentinel
AlphabetInputs ==
    { <<>>,
      <<"empty">>,
      <<"blue", "red", "red">>,
      <<"red", "blue", "green", "empty">> }

\* scenario C: the 256 codes of four colours and length four, the guess and
\* the feedback of scenario A, and a second guess
ScenarioRules ==
    [codeLength |-> Len(ScenarioAGuess),
     availableColors |-> <<"red", "blue", "green", "yellow", "empty">>]

ScenarioFeedback == <<"correct", "wrongPosition", "incorrect", "incorrect">>

\* the pegs of the short guesses handed to the service
GuessPegs == {"red", "blue", "empty"}

GuessInputs ==
    SeqsOf(GuessPegs, 1, MaxCodeLength) \cup {ScenarioAGuess, ScenarioACode}

\* the feedback lists handed to the service: every histogram in sortFeedback's
\* order, two lists out of that order, and the feedback of scenario A
FeedbackInputs ==
    {sortFeedback(f) : f \in SeqsOf(FeedbackPegs, 1, MaxCodeLength)}
      \cup {<<"incorrect", "correct">>, <<"empty", "wrongPosition">>}
      \cup {ScenarioFeedback}

RulesInputs ==
    [codeLength : 1..MaxCodeLength, availableColors : AlphabetInputs]
      \cup {ScenarioRules}

\* the state after SolutionService.create(gameRules)
Init ==
    \E gameRules \in RulesInputs :
        LET service == create(gameRules)
        IN  /\ solutions = service.solutions
            /\ codeLength = service.codeLength
            /\ call = [NoCall EXCEPT !.op = "create",
                                     !.length = gameRules.codeLength,
                                     !.colors = gameRules.availableColors,
                                     !.err = service.err]
            /\ NoHook

\* history: the call before this one applied the same record and returned
RepeatsLastRecord(guess, feedback) ==
    /\ call.op = "applyGuessAndFeedback"
    /\ call.err = "none"
    /\ call.guess = guess
    /\ call.feedback = feedback

\* a mutant of applyGuessAndFeedback: the length of the feedback is not
\* checked
applyGuessAndFeedbackNoFeedbackCheck(guess, feedback) ==
    LET this == [NoCall EXCEPT !.op = "applyGuessAndFeedback",
                               !.guess = guess, !.feedback = feedback,
                               !.pre = solutions,
                               !.again = RepeatsLastRecord(guess, feedback)]
    IN  IF <<Len(guess)>> # codeLength
        THEN /\ call' = [this EXCEPT !.err = "Guess must have length"]
             /\ UNCHANGED <<solutions, codeLength, hook>>
        ELSE /\ solutions' = matchingSolutions(solutions, guess, sortFeedback(feedback))
             /\ call' = [this EXCEPT !.ret = Len(solutions')]
             /\ UNCHANGED <<codeLength, hook>>

\* applyGuessAndFeedback(guess, feedback)
applyGuessAndFeedback(guess, feedback) ==
    LET this == [NoCall EXCEPT !.op = "applyGuessAndFeedback",
                               !.guess = guess, !.feedback = feedback,
                               !.pre = solutions,
                               !.again = RepeatsLastRecord(guess, feedback)]
    IN  IF <<Len(guess)>> # codeLength
        THEN /\ call' = [this EXCEPT !.err = "Guess must have length"]
             /\ UNCHANGED <<solutions, codeLength, hook>>
        ELSE IF <<Len(feedback)>> # codeLength
        THEN /\ call' = [this EXCEPT !.err = "Feedback must have length"]
             /\ UNCHANGED <<solutions, codeLength, hook>>
        ELSE /\ solutions' = matchingSolutions(solutions, guess, sortFeedback(feedback))
             /\ call' = [this EXCEPT !.ret = Len(solutions')]
             /\ UNCHANGED <<codeLength, hook>>

\* the caller takes what the call returned or threw
returnToCaller ==
    /\ call.op # "none"
    /\ call' = NoCall
    /\ UNCHANGED <<solutions, codeLength, hook>>

\* the caller applies a record
applyRecord ==
    /\ call.op = "none"
    /\ \E guess \in GuessInputs, feedback \in FeedbackInputs :
          applyGuessAndFeedback(guess, feedback)

\* the caller applies the record it has just applied once more
applyRecordAgain ==
    /\ call.op = "applyGuessAndFeedback"
    /\ call.err = "none"
    /\ applyGuessAndFeedback(call.guess, call.feedback)

Next == returnToCaller \/ applyRecord \/ applyRecordAgain

Spec == Init /\ [][Next]_vars

(***************************************************************************)
(* The service's claims, under Spec.                                       *)
(***************************************************************************)
\* the codes a Set<string> of solutions stands for
Codes(sols) == {stringToCode(sols[i]) : i \in 1..Len(sols)}

\* the usable symbols of a colour list: its members but the sentinel
Usable(colors) == {colors[i] : i \in 1..Len(colors)} \ {"empty"}

\* the last call was an applyGuessAndFeedback that returned
Applied == call.op = "applyGuessAndFeedback" /\ call.err = "none"

\* C6: create(codeLength, alphabet) yields exactly the set of all sequences
\* of length codeLength over the alphabet without the 'empty' sentinel:
\* |alphabet minus sentinel|^codeLength distinct members, none of which
\* contains the sentinel.
C6_CreateEnumeratesAll ==
    (call.op = "create" /\ call.err = "none") =>
        /\ Codes(solutions) = [1..call.length -> Usable(call.colors)]
        /\ Len(solutions) = Cardinality(Usable(call.colors)) ^ call.length
        /\ \A i, j \in 1..Len(solutions) : i # j => solutions[i] # solutions[j]
        /\ \A c \in Codes(solutions) : \A k \in 1..Len(c) : c[k] # "empty"

\* a space was created from a colour list naming a colour twice and holds
\* each code once
C6_Witness ==
    /\ call.op = "create"
    /\ call.colors = <<"blue", "red", "red">>
    /\ call.length = 2
    /\ solutions = <<<<"blue", ",", "blue">>, <<"blue", ",", "red">>,
                     <<"red", ",", "blue">>, <<"red", ",", "red">>>>

\* C7: creating a solution space with an alphabet that has no usable
\* (non-sentinel) symbol fails with an EmptyAlphabet error rather than
\* returning a space.
C7_EmptyAlphabetThrown ==
    (call.op = "create" /\ Usable(call.colors) = {}) =>
        call.err = "EmptyAlphabet"

\* the members of sols whose evaluation against guess has the histogram of
\* feedback
Consistent(sols, guess, feedback) ==
    {c \in Codes(sols) : Histogram(evaluateGuess(guess, c)) = Histogram(feedback)}

\* C8: after applyGuessAndFeedback(guess, feedback) on a space S the space is
\* exactly { c in S : evaluate(guess, c) has the counts of feedback } and the
\* call returns the size of that set; from the 256 codes of four colours and
\* length four, guess [A,A,B,B] with feedback {1,1,2} keeps [A,B,C,D].
C8_ApplyFilters ==
    Applied =>
        LET consistent == Consistent(call.pre, call.guess, call.feedback)
        IN
        /\ Codes(solutions) = consistent
        /\ call.ret = Cardinality(consistent)
        /\ call.ret = Len(solutions)
        /\ ((Len(call.pre) = 256 /\ call.guess = ScenarioAGuess
                /\ Histogram(call.feedback) = <<1, 1, 2>>)
              => ScenarioACode \in Codes(solutions))

\* scenario C: the record of scenario A has been applied to the 256 codes
C8_Witness ==
    /\ Applied
    /\ Len(call.pre) = 256
    /\ call.guess = ScenarioAGuess
    /\ call.feedback = ScenarioFeedback
    /\ ScenarioACode \in Codes(solutions)
    /\ Len(solutions) < Len(call.pre)

\* C9: over any sequence of applyGuessAndFeedback calls the size of the space
\* never increases from one call to the next, and the space after each call
\* is a subset of the space before it.
C9_ApplyShrinks ==
    call.op = "applyGuessAndFeedback" =>
        /\ Len(solutions) <= Len(call.pre)
        /\ \A i \in 1..Len(solutions) :
              \E j \in 1..Len(call.pre) : solutions[i] = call.pre[j]

\* a space of nine codes, narrowed to four by one call, has been narrowed
\* again by the next
C9_Witness ==
    /\ Applied
    /\ Len(call.pre) = 4
    /\ \E c \in Codes(call.pre) : c[1] = "green"
    /\ Len(solutions) > 0
    /\ Len(solutions) < Len(call.pre)

\* C10: applying the same (guess, feedback) record twice in succession leaves
\* the space after the second application identical, in members and size, to
\* the space after the first.
C10_ApplyIdempotent ==
    (Applied /\ call.again) =>
        /\ solutions = call.pre
        /\ call.ret = Len(call.pre)

\* the record of scenario A has been applied twice in succession
C10_Witness ==
    /\ Applied
    /\ call.again
    /\ call.guess = ScenarioAGuess
    /\ call.feedback = ScenarioFeedback
    /\ Len(solutions) > 1
    /\ Len(solutions) < 256

\* the errors applyGuessAndFeedback throws for a list of the wrong length
LengthErrors == {"Guess must have length", "Feedback must have length"}

\* C11: applyGuessAndFeedback throws a length error when the length of the
\* guess or of the feedback differs from the service's codeLength, and the
\* solution set is then what it was before the call.
C11_ApplyLengthMismatch ==
    (/\ call.op = "applyGuessAndFeedback"
     /\ (<<Len(call.guess)>> # codeLength \/ <<Len(call.feedback)>> # codeLength))
      => /\ call.err \in LengthErrors
         /\ solutions = call.pre

\* a guess of the right length was applied with a feedback of the wrong
\* length to a space that holds codes: the call threw, the space is kept
C11_Witness ==
    /\ call.op = "applyGuessAndFeedback"
    /\ <<Len(call.guess)>> = codeLength
    /\ <<Len(call.feedback)>> # codeLength
    /\ call.err = "Feedback must have length"
    /\ Len(solutions) > 1
    /\ solutions = call.pre

(***************************************************************************)
(* services/SolutionService.ts: reset and the reads of the solution set.   *)
(***************************************************************************)
\* the private generateAllPossibleCodes of the service: the strings of every
\* code over colors as they are given; the colours are not filtered
generateAllPossibleCodes(length, colors) ==
    LET result == generate(length, colors, [i \in 1..length |-> "empty"], 0, 1)
    IN  [i \in 1..Len(result) |-> codeToString(result[i])]

\* feedbackToString: feedback.sort() sorts the caller's array in place, so
\* it gives the key and leaves the array sorted
feedbackToString(feedback) ==
    [key |-> codeToString(jsSort(feedback)), feedback |-> jsSort(feedback)]

\* the index of the entry of a Map (entries in insertion order) with the
\* key, 0 when it has none
entryOf(map, key) ==
    IF \E k \in 1..Len(map) : map[k].key = key
    THEN CHOOSE k \in 1..Len(map) : map[k].key = key
    ELSE 0

\* a mutant of patternsLoop: the first solution of a new group is not
\* pushed to it
RECURSIVE patternsLoopDropFirst(_, _, _, _)
patternsLoopDropFirst(sols, guess, i, patternsMap) ==
    IF i > Len(sols) THEN patternsMap
    ELSE LET solutionCode == stringToCode(sols[i])
             sorted == feedbackToString(evaluateGuess(guess, solutionCode))
             at == entryOf(patternsMap, sorted.key)
         IN  IF at = 0
             THEN patternsLoopDropFirst(sols, guess, i + 1,
                      Append(patternsMap, [key |-> sorted.key,
                                           feedback |-> sorted.feedback,
                                           solutions |-> <<>>, count |-> 1]))
             ELSE patternsLoopDropFirst(sols, guess, i + 1,
                      [patternsMap EXCEPT ![at].solutions = Append(@, solutionCode),
                                          ![at].count = @ + 1])

\* getPossibleFeedbackPatterns, its loop from the i-th solution of the set
\* on: patternsMap gets a group for every new key, the solution is pushed
\* to the group of its key and the group's count is incremented
RECURSIVE patternsLoop(_, _, _, _)
patternsLoop(sols, guess, i, patternsMap) ==
    IF i > Len(sols) THEN patternsMap
    ELSE LET solutionCode == stringToCode(sols[i])
             sorted == feedbackToString(evaluateGuess(guess, solutionCode))
             at == entryOf(patternsMap, sorted.key)
             withKey == IF at = 0
                        THEN Append(patternsMap,
                                    [key |-> sorted.key,
                                     feedback |-> sorted.feedback,
                                     solutions |-> <<>>, count |-> 0])
                        ELSE patternsMap
             k == IF at = 0 THEN Len(withKey) ELSE at
         IN  patternsLoop(sols, guess, i + 1,
                          [withKey EXCEPT ![k].solutions = Append(@, solutionCode),
                                          ![k].count = @ + 1])

\* Array.from(patternsMap.values()): the groups in insertion order
mapValues(map) ==
    [k \in 1..Len(map) |->
        [feedback |-> map[k].feedback, solutions |-> map[k].solutions,
         count |-> map[k].count]]

\* getPossibleFeedbackPatterns(guess) on a set of solutions, after its
\* length check
possibleFeedbackPatterns(sols, guess) ==
    mapValues(patternsLoop(sols, guess, 1, <<>>))

\* the loop of getSolutionsForGuessAndFeedback: the codes of the solutions
\* whose feedback for the guess equals the feedback
solutionsForGuessAndFeedback(sols, guess, feedback) ==
    allSolutions(SelectSeq(sols, LAMBDA solution :
        areFeedbackEqual(evaluateGuess(guess, stringToCode(solution)), feedback)))

\* patterns.reduce((max, group) => group.count > max.count ? group : max,
\* {feedback: [], solutions: [], count: 0}) over the first n patterns: the
\* first group of the largest count, the initial one when there is none
RECURSIVE largestGroup(_, _)
largestGroup(patterns, n) ==
    IF n = 0 THEN [feedback |-> <<>>, solutions |-> <<>>, count |-> 0]
    ELSE LET max == largestGroup(patterns, n - 1)
         IN  IF patterns[n].count > max.count THEN patterns[n] ELSE max

\* patterns.find(group => areFeedbackEqual(group.feedback, response)): the
\* index of the first such group, 0 for undefined
currentResponseGroup(patterns, response) ==
    IF \E k \in 1..Len(patterns) : areFeedbackEqual(patterns[k].feedback, response)
    THEN CHOOSE k \in 1..Len(patterns) :
            /\ areFeedbackEqual(patterns[k].feedback, response)
            /\ \A j \in 1..(k - 1) : ~areFeedbackEqual(patterns[j].feedback, response)
    ELSE 0

\* the response of one round of processGuessSeries to a guess, given the
\* patterns of the guess: the caller's response when its group is as large
\* as the largest, else the feedback of the largest group
optimalResponse(patterns, response) ==
    LET largest == largestGroup(patterns, Len(patterns))
        current == currentResponseGroup(patterns, response)
    IN  IF current = 0 \/ patterns[current].count < largest.count
        THEN largest.feedback
        ELSE response

\* processGuessSeries, its loop from round i on (1-based): sols is
\* this.solutions, which the loop does not assign, len is this.codeLength;
\* a throw leaves this.solutions as it was
RECURSIVE seriesLoop(_, _, _, _, _, _, _)
seriesLoop(sols, len, guesses, responses, i, currentSolutions, optimalResponses) ==
    IF i > Len(guesses)
    THEN [err |-> "none", solutions |-> currentSolutions,
          optimalResponses |-> optimalResponses]
    ELSE IF <<Len(guesses[i])>> # len
    THEN [err |-> "Guess at index must have length", solutions |-> sols,
          optimalResponses |-> <<>>]
    ELSE IF <<Len(responses[i])>> # len
    THEN [err |-> "Response at index must have length", solutions |-> sols,
          optimalResponses |-> <<>>]
    ELSE LET patterns == possibleFeedbackPatterns(sols, guesses[i])
             optimal == optimalResponse(patterns, responses[i])
             newSolutions ==
                 LET kept == SelectSeq(currentSolutions, LAMBDA solution :
                         areFeedbackEqual(evaluateGuess(guesses[i], stringToCode(solution)),
                                          optimal))
                 IN  NewSet([k \in 1..Len(kept) |-> codeToString(stringToCode(kept[k]))])
         IN  seriesLoop(sols, len, guesses, responses, i + 1, newSolutions,
                        Append(optimalResponses, optimal))

(***************************************************************************)
(* utils/gameLogic.ts: the groups of a guess and the evil feedback.        *)
(***************************************************************************)
\* groupSolutionsByFeedback, its forEach from the i-th solution on: groups
\* (the keys of the Record in insertion order) gets a group for every new
\* key, the solution is pushed to the group of its key and the group's
\* count is incremented
RECURSIVE groupLoop(_, _, _, _)
groupLoop(sols, guess, i, groups) ==
    IF i > Len(sols) THEN groups
    ELSE LET sortedFeedback == sortFeedback(evaluateGuess(guess, sols[i]))
             feedbackKey == codeToString(sortedFeedback)
             at == entryOf(groups, feedbackKey)
             withKey == IF at = 0
                        THEN Append(groups, [key |-> feedbackKey,
                                             feedback |-> sortedFeedback,
                                             solutions |-> <<>>, count |-> 0])
                        ELSE groups
             k == IF at = 0 THEN Len(withKey) ELSE at
         IN  groupLoop(sols, guess, i + 1,
                       [withKey EXCEPT ![k].solutions = Append(@, sols[i]),
                                       ![k].count = @ + 1])

\* a mutant of sortByCount: the groups stay in the order of their keys
sortByCountNot(groups) == groups

\* sort((a, b) => b.count - a.count): by count, largest first; the sort is
\* stable, groups of the same count keep their order
sortByCount(groups) ==
    LET n == Len(groups)
        rank(i) == Cardinality({j \in 1..n :
                       \/ groups[j].count > groups[i].count
                       \/ groups[j].count = groups[i].count /\ j < i}) + 1
    IN  [k \in 1..n |-> groups[CHOOSE i \in 1..n : rank(i) = k]]

\* groupSolutionsByFeedback(solutions, guess)
groupSolutionsByFeedback(sols, guess) ==
    sortByCount(mapValues(groupLoop(sols, guess, 1, <<>>)))

\* a mutant of getEvilFeedback: the feedback of the first group is returned
\* with the solutions of the last
getEvilFeedbackMixed(sols, guess) ==
    LET groups == groupSolutionsByFeedback(sols, guess)
    IN  IF Len(groups) = 0
        THEN [feedback |-> [i \in 1..Len(guess) |-> "incorrect"],
              remainingSolutions |-> <<>>]
        ELSE [feedback |-> groups[1].feedback,
              remainingSolutions |-> groups[Len(groups)].solutions]

\* getEvilFeedback(solutions, guess): no group, all pegs 'incorrect' and
\* nothing thrown; else the first group
getEvilFeedback(sols, guess) ==
    LET groups == groupSolutionsByFeedback(sols, guess)
    IN  IF Len(groups) = 0
        THEN [feedback |-> [i \in 1..Len(guess) |-> "incorrect"],
              remainingSolutions |-> <<>>]
        ELSE [feedback |-> groups[1].feedback,
              remainingSolutions |-> groups[1].solutions]

(***************************************************************************)
(* The static SolutionService: findOptimalGuesses.                         *)
(***************************************************************************)
\* the most candidate guesses findOptimalGuesses evaluates
SampleCap == 25
\* the default of maxResults
DefaultMaxResults == 5

\* the standard first guesses returned when there is no possible solution
StandardFirstGuesses ==
    <<[guess |-> <<"red", "red", "blue", "blue">>, maxGroupSize |-> 256,
       distribution |-> <<>>],
      [guess |-> <<"red", "green", "blue", "yellow">>, maxGroupSize |-> 256,
       distribution |-> <<>>],
      [guess |-> <<"red", "yellow", "red", "yellow">>, maxGroupSize |-> 256,
       distribution |-> <<>>]>>

\* the entry findOptimalGuesses pushes for a candidate guess, after its
\* inner loop over the possible solutions: distribution holds the keys
\* feedback.join(',') in the order they were first met, each with the
\* number of solutions of that key, and maxGroupSize is the largest count
\* the loop has seen, 0 when it saw none
evaluatedGuess(candidateGuess, possibleSolutions) ==
    LET feedbackKeys == [i \in 1..Len(possibleSolutions) |->
                            codeToString(evaluateGuess(candidateGuess,
                                                       possibleSolutions[i]))]
        keys == NewSet(feedbackKeys)
        distribution == [k \in 1..Len(keys) |->
                            [key |-> keys[k], count |-> Count(feedbackKeys, keys[k])]]
        counts == {distribution[k].count : k \in 1..Len(keys)}
    IN  [guess |-> candidateGuess,
         maxGroupSize |-> IF counts = {} THEN 0
                          ELSE CHOOSE n \in counts : \A m \in counts : m <= n,
         distribution |-> distribution]

\* sort((a, b) => a.maxGroupSize - b.maxGroupSize): smallest first, stable
sortByMaxGroupSize(evaluatedGuesses) ==
    LET n == Len(evaluatedGuesses)
        rank(i) == Cardinality({j \in 1..n :
                       \/ evaluatedGuesses[j].maxGroupSize < evaluatedGuesses[i].maxGroupSize
                       \/ /\ evaluatedGuesses[j].maxGroupSize = evaluatedGuesses[i].maxGroupSize
                          /\ j < i}) + 1
    IN  [k \in 1..n |-> evaluatedGuesses[CHOOSE i \in 1..n : rank(i) = k]]

\* findOptimalGuesses(possibleSolutions, maxResults), maxResults >= 0
findOptimalGuesses(possibleSolutions, maxResults) ==
    IF Len(possibleSolutions) = 0 THEN StandardFirstGuesses
    ELSE LET solutionsToEvaluate ==
                 IF Len(possibleSolutions) <= SampleCap THEN possibleSolutions
                 ELSE SubSeq(possibleSolutions, 1, SampleCap)
             evaluatedGuesses ==
                 [g \in 1..Len(solutionsToEvaluate) |->
                     evaluatedGuess(solutionsToEvaluate[g], possibleSolutions)]
             sorted == sortByMaxGroupSize(evaluatedGuesses)
         IN  SubSeq(sorted, 1, Min(maxResults, Len(sorted)))

(***************************************************************************)
(* The service with all its operations: created, then reset, narrowed and  *)
(* read in any order (ServiceSpec), and given series of guesses to process *)
(* as well (SeriesSpec).                                                   *)
(***************************************************************************)
\* the guesses of at most MaxCodeLength pegs the reads are given
ShortGuessInputs == SeqsOf(GuessPegs, 1, MaxCodeLength)

\* the records the service with all its operations is narrowed by: guesses
\* of two colours; feedback all 'correct', all 'incorrect', or one 'correct'
\* after one 'incorrect'
NarrowGuessInputs == SeqsOf({"red", "blue"}, 1, MaxCodeLength)

NarrowFeedbackInputs ==
    {[i \in 1..n |-> "correct"] : n \in 1..MaxCodeLength}
      \cup {[i \in 1..n |-> "incorrect"] : n \in 1..MaxCodeLength}
      \cup {<<"incorrect", "correct">>}

\* the state after SolutionService.create(gameRules), short codes only
ServiceInit ==
    \E length \in 1..MaxCodeLength, colors \in AlphabetInputs :
        LET service == create([codeLength |-> length, availableColors |-> colors])
        IN  /\ solutions = service.solutions
            /\ codeLength = service.codeLength
            /\ call = [NoCall EXCEPT !.op = "create", !.length = length,
                                     !.colors = colors, !.err = service.err]
            /\ NoHook

\* reset(codeLength, availableColors): the readonly field codeLength of the
\* service is not assigned
reset(length, colors) ==
    /\ solutions' = NewSet(generateAllPossibleCodes(length, colors))
    /\ call' = [NoCall EXCEPT !.op = "reset", !.length = length,
                              !.colors = colors, !.pre = solutions]
    /\ UNCHANGED <<codeLength, hook>>

\* a mutant of getPossibleFeedbackPatterns: the largest group is stored as
\* the solution set
getPossibleFeedbackPatternsStoring(guess) ==
    LET this == [NoCall EXCEPT !.op = "getPossibleFeedbackPatterns",
                               !.guess = guess, !.pre = solutions]
        patterns == possibleFeedbackPatterns(solutions, guess)
    IN  IF <<Len(guess)>> # codeLength
        THEN /\ call' = [this EXCEPT !.err = "Guess must have length"]
             /\ UNCHANGED <<solutions, codeLength, hook>>
        ELSE /\ call' = [this EXCEPT !.out = patterns]
             /\ solutions' = IF Len(patterns) = 0 THEN solutions
                             ELSE [i \in 1..Len(patterns[1].solutions) |->
                                      codeToString(patterns[1].solutions[i])]
             /\ UNCHANGED <<codeLength, hook>>

\* getPossibleFeedbackPatterns(guess)
getPossibleFeedbackPatterns(guess) ==
    LET this == [NoCall EXCEPT !.op = "getPossibleFeedbackPatterns",
                               !.guess = guess, !.pre = solutions]
    IN  IF <<Len(guess)>> # codeLength
        THEN /\ call' = [this EXCEPT !.err = "Guess must have length"]
             /\ UNCHANGED <<solutions, codeLength, hook>>
        ELSE /\ call' = [this EXCEPT !.out = possibleFeedbackPatterns(solutions, guess)]
             /\ UNCHANGED <<solutions, codeLength, hook>>

\* getSolutionsForGuessAndFeedback(guess, feedback): only the length of the
\* guess is checked
getSolutionsForGuessAndFeedback(guess, feedback) ==
    LET this == [NoCall EXCEPT !.op = "getSolutionsForGuessAndFeedback",
                               !.guess = guess, !.feedback = feedback,
                               !.pre = solutions]
        matching == solutionsForGuessAndFeedback(solutions, guess, feedback)
    IN  IF <<Len(guess)>> # codeLength
        THEN /\ call' = [this EXCEPT !.err = "Guess must have length"]
             /\ UNCHANGED <<solutions, codeLength, hook>>
        ELSE /\ call' = [this EXCEPT !.out = [feedback |-> feedback,
                                              solutions |-> matching,
                                              count |-> Len(matching)]]
             /\ UNCHANGED <<solutions, codeLength, hook>>

\* processGuessSeries(guesses, responses); the call record holds the list
\* of guesses as guess, the list of responses as feedback and the optimal
\* responses returned as out
processGuessSeries(guesses, responses) ==
    LET this == [NoCall EXCEPT !.op = "processGuessSeries",
                               !.guess = guesses, !.feedback = responses,
                               !.pre = solutions]
    IN  IF Len(guesses) # Len(responses)
        THEN /\ call' = [this EXCEPT
                            !.err = "Number of guesses must match number of responses"]
             /\ UNCHANGED <<solutions, codeLength, hook>>
        ELSE LET done == seriesLoop(solutions, codeLength, guesses, responses,
                                    1, NewSet(solutions), <<>>)
             IN  /\ solutions' = done.solutions
                 /\ call' = [this EXCEPT !.err = done.err,
                                         !.out = done.optimalResponses]
                 /\ UNCHANGED <<codeLength, hook>>

\* the caller's calls
callApply ==
    /\ call.op = "none"
    /\ \E guess \in NarrowGuessInputs, feedback \in NarrowFeedbackInputs :
          applyGuessAndFeedback(guess, feedback)

callReset ==
    /\ call.op = "none"
    /\ \E length \in 1..MaxCodeLength, colors \in AlphabetInputs :
          reset(length, colors)

callGetPossibleFeedbackPatterns ==
    /\ call.op = "none"
    /\ \E guess \in ShortGuessInputs : getPossibleFeedbackPatterns(guess)

callGetSolutionsForGuessAndFeedback ==
    /\ call.op = "none"
    /\ \E guess \in NarrowGuessInputs, feedback \in NarrowFeedbackInputs :
          getSolutionsForGuessAndFeedback(guess, feedback)

\* groupSolutionsByFeedback(solutionService.allSolutions, guess)
callGroupSolutionsByFeedback ==
    /\ call.op = "none"
    /\ \E guess \in ShortGuessInputs :
          call' = [NoCall EXCEPT !.op = "groupSolutionsByFeedback",
                                 !.guess = guess, !.pre = solutions,
                                 !.out = groupSolutionsByFeedback(
                                             allSolutions(solutions), guess)]
    /\ UNCHANGED <<solutions, codeLength, hook>>

\* getEvilFeedback(solutionService.allSolutions, guess), as submitGuess
\* calls it in evil mode
callGetEvilFeedback ==
    /\ call.op = "none"
    /\ \E guess \in ShortGuessInputs :
          call' = [NoCall EXCEPT !.op = "getEvilFeedback",
                                 !.guess = guess, !.pre = solutions,
                                 !.out = getEvilFeedback(allSolutions(solutions),
                                                         guess)]
    /\ UNCHANGED <<solutions, codeLength, hook>>

\* the series handed to processGuessSeries: a guess and a response a round
SeriesInputs ==
    SeqsOf([guess : NarrowGuessInputs, response : NarrowFeedbackInputs],
           0, MaxRounds)

\* a series with a response for every guess, or with the last response
\* missing
callProcessGuessSeries ==
    /\ call.op = "none"
    /\ \E rounds \in SeriesInputs, responded \in {0, 1} :
          /\ responded <= Len(rounds)
          /\ processGuessSeries(
                 [i \in 1..Len(rounds) |-> rounds[i].guess],
                 [i \in 1..(Len(rounds) - 1 + responded) |-> rounds[i].response])

\* SolutionService.findOptimalGuesses(solutionService.allSolutions,
\* maxResults); the call record holds maxResults as length
callFindOptimalGuesses ==
    /\ call.op = "none"
    /\ \E maxResults \in {1, DefaultMaxResults} :
          call' = [NoCall EXCEPT !.op = "findOptimalGuesses",
                                 !.length = maxResults, !.pre = solutions,
                                 !.out = findOptimalGuesses(allSolutions(solutions),
                                                            maxResults)]
    /\ UNCHANGED <<solutions, codeLength, hook>>

ServiceNext ==
    \/ callFindOptimalGuesses
    \/ returnToCaller
    \/ callApply
    \/ callReset
    \/ callGetPossibleFeedbackPatterns
    \/ callGetSolutionsForGuessAndFeedback
    \/ callGroupSolutionsByFeedback
    \/ callGetEvilFeedback

ServiceSpec == ServiceInit /\ [][ServiceNext]_vars

\* the same with series of guesses processed as well
SeriesNext == ServiceNext \/ callProcessGuessSeries

SeriesSpec == ServiceInit /\ [][SeriesNext]_vars

(***************************************************************************)
(* The claims on reset, on the reads and on the series, under ServiceSpec   *)
(* and SeriesSpec.                                                         *)
(***************************************************************************)
\* C12: whatever the set held before, after reset(codeLength, alphabet) the
\* solution set is the full enumeration of the codes of length codeLength
\* over the alphabet without the 'empty' sentinel.
C12_ResetEnumeratesAll ==
    call.op = "reset" =>
        /\ Codes(solutions) = [1..call.length -> Usable(call.colors)]
        /\ Len(solutions) = Cardinality(Usable(call.colors)) ^ call.length

\* the last call returned the groups of a guess whose length is that of the
\* codes of the space
Partitioned ==
    \/ call.op = "getPossibleFeedbackPatterns" /\ call.err = "none"
    \/ /\ call.op = "groupSolutionsByFeedback"
       /\ \A c \in Codes(call.pre) : Len(c) = Len(call.guess)

\* the members of a group, as a set
Members(group) == {group.solutions[i] : i \in 1..Len(group.solutions)}

\* the sum of the counts of the first n groups
RECURSIVE SumCounts(_, _)
SumCounts(groups, n) ==
    IF n = 0 THEN 0 ELSE groups[n].count + SumCounts(groups, n - 1)

\* C13: the groups returned for a guess of matching length are pairwise
\* disjoint, have pairwise distinct histograms, have a count equal to the
\* number of their members, hold together exactly the codes of the space
\* (their counts sum to its size), and every member of a group evaluates
\* against the guess to the histogram of the group.
C13_GroupsPartition ==
    Partitioned =>
        LET groups == call.out
        IN  /\ \A a, b \in 1..Len(groups) : a # b =>
                  /\ Members(groups[a]) \cap Members(groups[b]) = {}
                  /\ Histogram(groups[a].feedback) # Histogram(groups[b].feedback)
            /\ \A a \in 1..Len(groups) :
                  /\ groups[a].count = Len(groups[a].solutions)
                  /\ groups[a].count = Cardinality(Members(groups[a]))
                  /\ \A c \in Members(groups[a]) :
                        Histogram(evaluateGuess(call.guess, c))
                          = Histogram(groups[a].feedback)
            /\ UNION {Members(groups[a]) : a \in 1..Len(groups)} = Codes(call.pre)
            /\ SumCounts(groups, Len(groups)) = Len(call.pre)

\* the four codes of two colours were grouped by a guess of both colours:
\* three groups, of two, one and one codes
C13_Witness ==
    /\ call.op = "getPossibleFeedbackPatterns"
    /\ call.err = "none"
    /\ Len(call.pre) = 4
    /\ call.guess = <<"blue", "red">>
    /\ Len(call.out) = 3
    /\ \E a \in 1..3 : call.out[a].count = 2

\* the reads that partition the space by a guess
PartitionReads ==
    {"getPossibleFeedbackPatterns", "getSolutionsForGuessAndFeedback",
     "groupSolutionsByFeedback"}

\* C14: getPossibleFeedbackPatterns, getSolutionsForGuessAndFeedback and
\* groupSolutionsByFeedback leave the solution set as it was before the call,
\* whether they return or throw.
C14_ReadsKeepSpace ==
    call.op \in PartitionReads =>
        /\ solutions = call.pre
        /\ Codes(solutions) = Codes(call.pre)

\* getSolutionsForGuessAndFeedback returned two of the four codes of a
\* space, which still holds the four
C14_Witness ==
    /\ call.op = "getSolutionsForGuessAndFeedback"
    /\ call.err = "none"
    /\ call.out.count = 2
    /\ Len(call.out.solutions) = 2
    /\ Len(solutions) = 4
    /\ Len(call.pre) = 4

\* the codes of the space of the last call that evaluate against its guess
\* to the histogram h
Bucket(h) ==
    {c \in Codes(call.pre) : Histogram(evaluateGuess(call.guess, c)) = h}

\* getEvilFeedback was called on a space that holds a code
EvilOnNonEmpty == call.op = "getEvilFeedback" /\ Len(call.pre) > 0

\* scenario B: the universe {RR, RG, GR, GG} and the guess RG, with blue for
\* R and red for G
ScenarioBUniverse ==
    {<<"blue", "blue">>, <<"blue", "red">>, <<"red", "blue">>, <<"red", "red">>}
ScenarioBGuess == <<"blue", "red">>

\* C15: on a space that is not empty getEvilFeedback returns the histogram of
\* a largest bucket of the partition of the space by the guess, and exactly
\* the members of that bucket as the remaining solutions; for the universe
\* {RR, RG, GR, GG} and the guess RG it returns one 'correct' and one
\* 'incorrect' with {RR, GG} remaining.
C15_EvilTakesLargest ==
    EvilOnNonEmpty =>
        LET h == Histogram(call.out.feedback)
            remaining == {call.out.remainingSolutions[i] :
                             i \in 1..Len(call.out.remainingSolutions)}
        IN  /\ remaining = Bucket(h)
            /\ Len(call.out.remainingSolutions) = Cardinality(Bucket(h))
            /\ \A c \in Codes(call.pre) :
                  Cardinality(Bucket(Histogram(evaluateGuess(call.guess, c))))
                    <= Cardinality(Bucket(h))
            /\ ((Codes(call.pre) = ScenarioBUniverse /\ call.guess = ScenarioBGuess)
                  => /\ h = <<1, 0, 1>>
                     /\ Len(call.out.feedback) = 2
                     /\ remaining = {<<"blue", "blue">>, <<"red", "red">>})

\* scenario B has been played
C15_Witness ==
    /\ call.op = "getEvilFeedback"
    /\ Codes(call.pre) = ScenarioBUniverse
    /\ call.guess = ScenarioBGuess
    /\ call.out.feedback = <<"correct", "incorrect">>
    /\ call.out.remainingSolutions = <<<<"blue", "blue">>, <<"red", "red">>>>

\* histogram a comes before histogram b in the descending lexicographic
\* order by (correct, wrongPosition, incorrect)
LexBefore(a, b) ==
    \/ a[1] > b[1]
    \/ a[1] = b[1] /\ a[2] > b[2]
    \/ a[1] = b[1] /\ a[2] = b[2] /\ a[3] > b[3]

\* the histograms of the largest buckets of the partition of the space of
\* the last call by its guess
LargestHistograms ==
    LET all == {Histogram(evaluateGuess(call.guess, c)) : c \in Codes(call.pre)}
    IN  {h \in all : \A g \in all : Cardinality(Bucket(g)) <= Cardinality(Bucket(h))}

\* the same array, last element first
Reverse(seq) == [i \in 1..Len(seq) |-> seq[Len(seq) + 1 - i]]

\* C16: when buckets tie for largest, the histogram getEvilFeedback returns
\* is the first of the tied ones in the descending lexicographic order by
\* (correct, wrongPosition, incorrect), and so is the same when the same
\* candidates are enumerated in another order.
C16_TieBreakFixed ==
    EvilOnNonEmpty =>
        LET h == Histogram(call.out.feedback)
        IN  /\ h \in LargestHistograms
            /\ \A g \in LargestHistograms \ {h} : LexBefore(h, g)
            /\ Histogram(getEvilFeedback(Reverse(allSolutions(call.pre)),
                                         call.guess).feedback) = h

\* C17: on an empty space getEvilFeedback fails with an EmptySolutionSpace
\* error; it returns no default histogram (such as all 'incorrect').
C17_EmptySpaceThrown ==
    (call.op = "getEvilFeedback" /\ Len(call.pre) = 0) =>
        /\ call.err = "EmptySolutionSpace"
        /\ call.out = <<>>

\* C18: on a space that is not empty the feedback getEvilFeedback returns is
\* truthful: the remaining solutions are not empty, are all in the space it
\* was given, and each of them evaluates against the guess to exactly the
\* histogram returned.
C18_EvilTruthful ==
    EvilOnNonEmpty =>
        /\ Len(call.out.remainingSolutions) > 0
        /\ \A i \in 1..Len(call.out.remainingSolutions) :
              /\ call.out.remainingSolutions[i] \in Codes(call.pre)
              /\ Histogram(evaluateGuess(call.guess, call.out.remainingSolutions[i]))
                   = Histogram(call.out.feedback)
        /\ Len(call.out.feedback) = Len(call.guess)

\* the evil feedback for a guess against the nine codes of three colours
\* kept some of them and discarded others
C18_Witness ==
    /\ call.op = "getEvilFeedback"
    /\ Len(call.pre) = 9
    /\ Len(call.guess) = 2
    /\ Len(call.out.remainingSolutions) > 1
    /\ Len(call.out.remainingSolutions) < 9
    /\ Count(call.out.feedback, "wrongPosition") + Count(call.out.feedback, "correct") > 0

\* the pegs of the codes of a set of solutions
PegsOf(sols) == UNION {{c[k] : k \in 1..Len(c)} : c \in Codes(sols)}

\* the set of solutions is a fresh one: it holds a code, and every code of
\* the length of its codes over their pegs
Fresh(sols) ==
    /\ Len(sols) > 0
    /\ Codes(sols) = [1..Len(stringToCode(sols[1])) -> PegsOf(sols)]

\* the codes of the space before the last call that agree with its first k
\* responses to its first k guesses
Narrowed(k) ==
    {c \in Codes(call.pre) :
        \A j \in 1..k : Histogram(evaluateGuess(call.guess[j], c))
                          = Histogram(call.out[j])}

\* the histograms of the largest buckets of the partition of a set of codes
\* by a guess
LargestOf(codes, guess) ==
    LET bucket(h) == {c \in codes : Histogram(evaluateGuess(guess, c)) = h}
        all == {Histogram(evaluateGuess(guess, c)) : c \in codes}
    IN  {h \in all : \A g \in all : Cardinality(bucket(g)) <= Cardinality(bucket(h))}

\* C19: processGuessSeries on a fresh space answers and ends as the
\* adversarial policy applied one round at a time: the response of round i
\* is the histogram of a largest bucket of the partition, by the guess of
\* round i, of the space narrowed by rounds 1..i-1, and the solution set at
\* the end is the space narrowed by all the rounds.
C19_SeriesIsRoundByRound ==
    (call.op = "processGuessSeries" /\ call.err = "none" /\ Fresh(call.pre)) =>
        /\ Len(call.out) = Len(call.guess)
        /\ \A i \in 1..Len(call.guess) :
              Histogram(call.out[i]) \in LargestOf(Narrowed(i - 1), call.guess[i])
        /\ Codes(solutions) = Narrowed(Len(call.guess))

\* C20: for every space, the empty one and the full initial one included, no
\* entry returned by findOptimalGuesses has a maxGroupSize greater than the
\* size of the space.
C20_WorstCaseWithinSpace ==
    call.op = "findOptimalGuesses" =>
        \A k \in 1..Len(call.out) : call.out[k].maxGroupSize <= Len(call.pre)

(***************************************************************************)
(* The recommender on the spaces of Spec, the 256 codes of four colours    *)
(* and length four among them.                                             *)
(***************************************************************************)
\* the caller narrows the space by a record
recommendApply ==
    /\ call.op = "none"
    /\ \E guess \in NarrowGuessInputs \cup {ScenarioAGuess, ScenarioACode},
          feedback \in NarrowFeedbackInputs \cup {ScenarioFeedback} :
          applyGuessAndFeedback(guess, feedback)

\* findOptimalGuesses asked for as many results as there are solutions
callFindOptimalGuessesAll ==
    /\ call.op = "none"
    /\ call' = [NoCall EXCEPT !.op = "findOptimalGuesses",
                              !.length = Len(solutions), !.pre = solutions,
                              !.out = findOptimalGuesses(allSolutions(solutions),
                                                         Len(solutions))]
    /\ UNCHANGED <<solutions, codeLength, hook>>

RecommendNext ==
    \/ returnToCaller
    \/ recommendApply
    \/ callFindOptimalGuesses
    \/ callFindOptimalGuessesAll

RecommendSpec == Init /\ [][RecommendNext]_vars

\* the size of the largest bucket of the partition of a set of codes by a
\* guess, by brute force: 0 for no code
LargestBucketSize(codes, guess) ==
    LET all == {Histogram(evaluateGuess(guess, c)) : c \in codes}
        size(h) == Cardinality({c \in codes : Histogram(evaluateGuess(guess, c)) = h})
        sizes == {size(h) : h \in all}
    IN  IF codes = {} THEN 0
        ELSE CHOOSE n \in sizes : \A m \in sizes : m <= n

\* C21: every entry returned by findOptimalGuesses reports as maxGroupSize
\* the size of the largest bucket of the partition of the space by its
\* guess, the standard first guesses (red, red, blue, blue and the others)
\* included.
C21_WorstCaseIsLargestBucket ==
    call.op = "findOptimalGuesses" =>
        \A k \in 1..Len(call.out) :
            call.out[k].maxGroupSize
              = LargestBucketSize(Codes(call.pre), call.out[k].guess)

\* the guesses of a list of entries of findOptimalGuesses, in its order
GuessesOf(entries) == [k \in 1..Len(entries) |-> entries[k].guess]

\* the candidate guesses findOptimalGuesses evaluates for the space of the
\* last call
Evaluated ==
    LET all == allSolutions(call.pre)
    IN  {all[i] : i \in 1..Min(Len(all), SampleCap)}

\* C22: the list findOptimalGuesses returns is sorted ascending by
\* maxGroupSize, has at most maxResults entries, holds the entries of the
\* smallest maxGroupSize among the guesses evaluated, and orders entries of
\* equal maxGroupSize by an ordering over the guesses themselves, so that
\* the same candidates enumerated in another order give the same list.
C22_SortedTopResults ==
    call.op = "findOptimalGuesses" =>
        /\ \A k \in 1..(Len(call.out) - 1) :
              call.out[k].maxGroupSize <= call.out[k + 1].maxGroupSize
        /\ Len(call.out) <= call.length
        /\ \A k \in 1..Len(call.out) :
              \A g \in Evaluated \ {call.out[j].guess : j \in 1..Len(call.out)} :
                  call.out[k].maxGroupSize <= LargestBucketSize(Codes(call.pre), g)
        /\ (Len(call.pre) <= SampleCap =>
              GuessesOf(findOptimalGuesses(Reverse(allSolutions(call.pre)),
                                           call.length))
                = GuessesOf(call.out))

\* C23: for a space that holds a code every guess findOptimalGuesses
\* returns is a member of the space and at most SampleCap (25) candidate
\* guesses are evaluated; the standard first guesses are returned only when
\* the space is the full initial universe (codeLength is undefined exactly
\* when that universe was empty).
C23_CandidatesFromSpace ==
    call.op = "findOptimalGuesses" =>
        /\ (Len(call.pre) > 0 =>
              /\ \A k \in 1..Len(call.out) : call.out[k].guess \in Codes(call.pre)
              /\ \A k \in 1..Len(call.out) : call.out[k].guess \in Evaluated
              /\ Len(call.out) <= SampleCap)
        /\ (call.out = StandardFirstGuesses =>
              Fresh(call.pre) \/ codeLength = <<>>)

\* C24: from a solution set that holds a code, processGuessSeries over any
\* series of well-formed guesses leaves a solution set that holds a code,
\* and every solution it keeps evaluates against the i-th guess to the i-th
\* response returned.
C24_SeriesKeepsConsistent ==
    (call.op = "processGuessSeries" /\ call.err = "none" /\ Len(call.pre) > 0) =>
        /\ Len(solutions) > 0
        /\ \A c \in Codes(solutions) : \A i \in 1..Len(call.guess) :
              Histogram(evaluateGuess(call.guess[i], c)) = Histogram(call.out[i])

(***************************************************************************)
(* Two records in a row: utils/gameLogic.ts filterSolutions and            *)
(* calculatePossibleSolutions, and the service's applyGuessAndFeedback.    *)
(***************************************************************************)
\* generateAllPossibleCodes of utils/gameLogic.ts: every code over the
\* colours but 'empty'; a colour listed twice gives its codes twice
generateAllCodes(length, availableColors) ==
    generate(length, SelectSeq(availableColors, LAMBDA col : col # "empty"),
             [i \in 1..length |-> "empty"], 0, 1)

\* filterSolutions(solutions, guess, feedback), feedback an array: the
\* solutions whose evaluation has the four counts of the feedback
filterSolutions(sols, guess, feedback) ==
    SelectSeq(sols, LAMBDA solution :
        LET evaluatedFeedback == evaluateGuess(guess, solution)
        IN  /\ Count(feedback, "correct") = Count(evaluatedFeedback, "correct")
            /\ Count(feedback, "wrongPosition") = Count(evaluatedFeedback, "wrongPosition")
            /\ Count(feedback, "incorrect") = Count(evaluatedFeedback, "incorrect")
            /\ Count(feedback, "empty") = Count(evaluatedFeedback, "empty"))

\* guesses.reduce(...) of calculatePossibleSolutions over the first n
\* records: a record whose feedback is all 'empty' is skipped
RECURSIVE reduceGuesses(_, _, _)
reduceGuesses(guesses, n, allCodes) ==
    IF n = 0 THEN allCodes
    ELSE LET sols == reduceGuesses(guesses, n - 1, allCodes)
         IN  IF \A i \in 1..Len(guesses[n].feedback) :
                    guesses[n].feedback[i] = "empty"
             THEN sols
             ELSE filterSolutions(sols, guesses[n].guess, guesses[n].feedback)

\* calculatePossibleSolutions(guesses, codeLength, availableColors) of
\* utils/gameLogic.ts
calculatePossibleSolutions(guesses, length, availableColors) ==
    LET allCodes == generateAllCodes(length, availableColors)
    IN  IF Len(guesses) = 0 THEN allCodes
        ELSE reduceGuesses(guesses, Len(guesses), allCodes)

\* what applyGuessAndFeedback leaves of a set of solutions: the set itself
\* when it throws
applied(sols, len, guess, feedback) ==
    IF <<Len(guess)>> # len \/ <<Len(feedback)>> # len THEN sols
    ELSE matchingSolutions(sols, guess, sortFeedback(feedback))

\* the records applied in a row: a guess of two colours, and a feedback of
\* its length, all 'correct', all 'incorrect', all 'empty' or one 'correct'
\* after one 'incorrect'
RecordInputs ==
    {r \in [guess : NarrowGuessInputs,
            feedback : NarrowFeedbackInputs
                         \cup {[i \in 1..n |-> "empty"] : n \in 1..MaxCodeLength}] :
        Len(r.guess) = Len(r.feedback)}

\* filterSolutions with one record, then with another, on the solutions of
\* the service
callFilterSolutions ==
    /\ call.op = "create"
    /\ \E r1 \in RecordInputs, r2 \in RecordInputs :
          call' = [NoCall EXCEPT
                      !.op = "filterSolutions",
                      !.guess = <<r1.guess, r2.guess>>,
                      !.feedback = <<r1.feedback, r2.feedback>>,
                      !.pre = solutions,
                      !.out = filterSolutions(
                                  filterSolutions(allSolutions(solutions),
                                                  r1.guess, r1.feedback),
                                  r2.guess, r2.feedback)]
    /\ UNCHANGED <<solutions, codeLength, hook>>

\* calculatePossibleSolutions with two records, for the rules the service
\* was created with
callCalculatePossibleSolutions ==
    /\ call.op = "create"
    /\ \E r1 \in RecordInputs, r2 \in RecordInputs :
          call' = [NoCall EXCEPT
                      !.op = "calculatePossibleSolutions",
                      !.guess = <<r1.guess, r2.guess>>,
                      !.feedback = <<r1.feedback, r2.feedback>>,
                      !.length = call.length, !.colors = call.colors,
                      !.out = calculatePossibleSolutions(<<r1, r2>>, call.length,
                                                         call.colors)]
    /\ UNCHANGED <<solutions, codeLength, hook>>

\* the service applies a record right after it was created or right after
\* it applied another
applyInARow ==
    /\ call.op \in {"create", "applyGuessAndFeedback"}
    /\ \E r \in RecordInputs : applyGuessAndFeedback(r.guess, r.feedback)

OrderNext ==
    callFilterSolutions \/ callCalculatePossibleSolutions \/ applyInARow

OrderSpec == ServiceInit /\ [][OrderNext]_vars

\* the elements of an array, as a set
Elements(arr) == {arr[i] : i \in 1..Len(arr)}

\* C25: two records applied to the same space in either order leave the
\* same set of candidates: filterSolutions after filterSolutions,
\* calculatePossibleSolutions of the two records, and applyGuessAndFeedback
\* after applyGuessAndFeedback on the service.
C25_OrderIndependent ==
    [][/\ (call'.op = "filterSolutions" =>
              Elements(call'.out)
                = Elements(filterSolutions(
                               filterSolutions(allSolutions(call'.pre),
                                               call'.guess[2], call'.feedback[2]),
                               call'.guess[1], call'.feedback[1])))
       /\ (call'.op = "calculatePossibleSolutions" =>
              Elements(call'.out)
                = Elements(calculatePossibleSolutions(
                               <<[guess |-> call'.guess[2], feedback |-> call'.feedback[2]],
                                 [guess |-> call'.guess[1], feedback |-> call'.feedback[1]]>>,
                               call'.length, call'.colors)))
       /\ ((call.op = "applyGuessAndFeedback" /\ call'.op = "applyGuessAndFeedback") =>
              Codes(solutions')
                = Codes(applied(applied(call.pre, codeLength,
                                        call'.guess, call'.feedback),
                                codeLength, call.guess, call.feedback)))
      ]_vars

\* a space of two codes left by an earlier record was narrowed to one code
\* by the next record
C25_Witness ==
    /\ Applied
    /\ Len(call.pre) = 2
    /\ \E c \in Codes(call.pre) : Len(c) = 2 /\ c[1] # c[2]
    /\ Len(solutions) = 1

(***************************************************************************)
(* The game-state hook useGameState: a GameBoard of models/GameBoard.ts    *)
(* with rows of models/Guess.ts, the mode, gameOver, won, and the hook's   *)
(* SolutionService.  A row is its pegs' colours and its feedback.          *)
(***************************************************************************)
\* the most rows a board of the model gets, and the maxGuesses of its
\* rules: the rows answered and the empty row after them
MaxRows == MaxRounds
HookMaxGuesses == MaxRows - 1

\* Guess.createEmpty(length)
createEmpty(length) ==
    [pegs |-> [i \in 1..length |-> "empty"],
     feedback |-> [i \in 1..length |-> "empty"]]

\* Guess.isComplete()
isComplete(guess) == \A i \in 1..Len(guess.pegs) : guess.pegs[i] # "empty"

\* Guess.setPeg(index, color), index 0-based and at most the number of
\* pegs: the peg after the last is added
setPeg(guess, index, color) ==
    IF index = Len(guess.pegs)
    THEN [guess EXCEPT !.pegs = Append(guess.pegs, color)]
    ELSE [guess EXCEPT !.pegs[index + 1] = color]

\* a mutant of GameBoard: an empty list of guesses is kept
GameBoardKeepingNoRow(secretCode, guesses, length, maxGuesses, availableColors) ==
    [secretCode |-> secretCode,
     guesses |-> guesses,
     gameRules |-> [codeLength |-> length, maxGuesses |-> maxGuesses,
                    availableColors |-> availableColors]]

\* new GameBoard(secretCode, guesses, codeLength, maxGuesses, availableColors)
\* of models/GameBoard.ts
GameBoard(secretCode, guesses, length, maxGuesses, availableColors) ==
    [secretCode |-> secretCode,
     guesses |-> IF Len(guesses) = 0 THEN <<createEmpty(length)>> ELSE guesses,
     gameRules |-> [codeLength |-> length, maxGuesses |-> maxGuesses,
                    availableColors |-> availableColors]]

\* the board with other rows
withGuesses(board, guesses) ==
    GameBoard(board.secretCode, guesses, board.gameRules.codeLength,
              board.gameRules.maxGuesses, board.gameRules.availableColors)

\* generateRandomCode(codeLength, availableColors): the codes it can give;
\* the random index is below availableColors.length - 1
generateRandomCode(length, availableColors) ==
    LET last == IF Len(availableColors) > 1 THEN Len(availableColors) - 1 ELSE 1
    IN  [1..length -> {availableColors[i] : i \in 1..last}]

\* filteredColors of the hook
filteredColors(availableColors) ==
    SelectSeq(availableColors, LAMBDA c : c # "empty")

\* a mutant of replayLoop: the feedback applied is the one of the guess
\* against itself
RECURSIVE replayLoopOwnFeedback(_, _, _, _, _)
replayLoopOwnFeedback(sols, len, currentGuesses, currentGoal, i) ==
    IF i > Len(currentGuesses) THEN [err |-> "none", solutions |-> sols]
    ELSE IF ~isComplete(currentGuesses[i])
    THEN replayLoopOwnFeedback(sols, len, currentGuesses, currentGoal, i + 1)
    ELSE LET guess == currentGuesses[i].pegs
             feedback == evaluateGuess(guess, guess)
         IN  IF <<Len(guess)>> # len
             THEN [err |-> "Guess must have length", solutions |-> sols]
             ELSE IF <<Len(feedback)>> # len
             THEN [err |-> "Feedback must have length", solutions |-> sols]
             ELSE replayLoopOwnFeedback(
                      matchingSolutions(sols, guess, sortFeedback(feedback)),
                      len, currentGuesses, currentGoal, i + 1)

\* bumpState, normal mode: the forEach over the rows from the i-th on; a
\* throw of applyGuessAndFeedback ends it and leaves the solutions it had
RECURSIVE replayLoop(_, _, _, _, _)
replayLoop(sols, len, currentGuesses, currentGoal, i) ==
    IF i > Len(currentGuesses) THEN [err |-> "none", solutions |-> sols]
    ELSE IF ~isComplete(currentGuesses[i])
    THEN replayLoop(sols, len, currentGuesses, currentGoal, i + 1)
    ELSE LET guess == currentGuesses[i].pegs
             feedback == evaluateGuess(guess, currentGoal)
         IN  IF <<Len(guess)>> # len
             THEN [err |-> "Guess must have length", solutions |-> sols]
             ELSE IF <<Len(feedback)>> # len
             THEN [err |-> "Feedback must have length", solutions |-> sols]
             ELSE replayLoop(matchingSolutions(sols, guess, sortFeedback(feedback)),
                             len, currentGuesses, currentGoal, i + 1)

\* reset(codeLength, filteredColors) of bumpState, then its replay of the
\* rows of the board in the mode given: the optimal responses of
\* processGuessSeries in evil mode, applyGuessAndFeedback row by row in
\* normal mode
replayed(board, mode) ==
    LET fresh == NewSet(generateAllPossibleCodes(
                            board.gameRules.codeLength,
                            filteredColors(board.gameRules.availableColors)))
        answered == SelectSeq(board.guesses, LAMBDA guess :
                        isComplete(guess) /\ Len(guess.feedback) > 0)
        guesses == [k \in 1..Len(answered) |-> answered[k].pegs]
        responses == [k \in 1..Len(answered) |-> answered[k].feedback]
    IN  IF mode = "evil"
        THEN [fresh |-> fresh, guesses |-> guesses, responses |-> responses,
              done |-> seriesLoop(fresh, codeLength, guesses, responses,
                                  1, NewSet(fresh), <<>>)]
        ELSE [fresh |-> fresh, guesses |-> <<>>, responses |-> <<>>,
              done |-> [optimalResponses |-> <<>>] @@
                       replayLoop(fresh, codeLength, board.guesses,
                                  board.secretCode, 1)]

\* bumpState(board), called by the handler whose call record is this, with
\* the gameMode of the render the handler was made in
bumpState(this, board) ==
    \E replay \in {replayed(board, gameMode)} :
        LET currentGuesses == board.guesses
            optimalResponses == replay.done.optimalResponses
            written == [i \in 1..Len(currentGuesses) |->
                           IF i <= Len(optimalResponses)
                           THEN [currentGuesses[i] EXCEPT
                                    !.feedback = optimalResponses[i]]
                           ELSE currentGuesses[i]]
            updatedBoard == withGuesses(board, written)
            currentGuess == updatedBoard.guesses[Len(updatedBoard.guesses)]
            isCorrect == \A i \in 1..Len(currentGuess.feedback) :
                             currentGuess.feedback[i] = "correct"
            isGameOver == \/ isCorrect
                          \/ Len(updatedBoard.guesses) >= updatedBoard.gameRules.maxGuesses
        IN  /\ solutions' = replay.done.solutions
            /\ UNCHANGED codeLength
            /\ call' = [this EXCEPT !.mode = gameMode, !.rows = currentGuesses,
                                    !.code = board.secretCode,
                                    !.pre = replay.fresh,
                                    !.guess = replay.guesses,
                                    !.feedback = replay.responses,
                                    !.out = optimalResponses,
                                    !.err = replay.done.err]
            /\ IF replay.done.err # "none"
               THEN UNCHANGED <<gameBoard, gameOver, won>>
               ELSE /\ gameBoard' = updatedBoard
                    /\ IF isComplete(currentGuess) /\ Len(currentGuess.feedback) > 0
                       THEN gameOver' = isGameOver /\ won' = isCorrect
                       ELSE UNCHANGED <<gameOver, won>>

\* pushResponse(feedback, guessIndex): guessIndex is 0-based, -1 when it is
\* not given; a row is appended only while the board has fewer than
\* MaxRows rows
pushResponse(this, feedback, guessIndex) ==
    LET rows == gameBoard.guesses
        valid == {i \in 1..Len(rows) : isComplete(rows[i])}
        indexToUpdate ==
            IF guessIndex # -1 THEN guessIndex + 1
            ELSE IF valid = {} THEN 0
            ELSE CHOOSE i \in valid : \A j \in valid : j <= i
        updated == [rows EXCEPT ![indexToUpdate].feedback = feedback]
        appended == IF indexToUpdate = Len(rows) /\ ~gameOver
                    THEN Append(updated, createEmpty(gameBoard.gameRules.codeLength))
                    ELSE updated
    IN  IF indexToUpdate < 1 \/ indexToUpdate > Len(rows)
        THEN /\ call' = this
             /\ UNCHANGED <<solutions, codeLength, hook>>
        ELSE /\ Len(appended) <= MaxRows
             /\ bumpState(this, withGuesses(gameBoard, appended))

\* the alphabet and the code length of the hook
HookColors == <<"red", "blue", "empty">>
HookCodeLength == MaxCodeLength

\* the pegs pushed as a guess: red, then blue pegs
PushInputs == {[i \in 1..HookCodeLength |-> IF i = 1 THEN "red" ELSE "blue"]}

\* the feedback pushed as a response
ResponseInputs ==
    {[i \in 1..HookCodeLength |-> "correct"],
     [i \in 1..HookCodeLength |-> IF i = 1 THEN "incorrect" ELSE "correct"]}

\* useGameState(initialMode, codeLength, maxGuesses, availableColors): the
\* first render, secretCode being the code generateRandomCode gave
useGameState(initialMode, length, maxGuesses, availableColors, secretCode) ==
    LET service == constructor(generateAllCodes(length,
                                                filteredColors(availableColors)))
    IN  /\ gameBoard = GameBoard(secretCode, <<createEmpty(length)>>,
                                 length, maxGuesses, availableColors)
        /\ gameMode = initialMode
        /\ gameOver = FALSE
        /\ won = FALSE
        /\ solutions = service.solutions
        /\ codeLength = service.codeLength
        /\ call = [NoCall EXCEPT !.op = "useGameState", !.mode = initialMode]

HookInit ==
    \E initialMode \in {"normal", "evil"},
       secretCode \in generateRandomCode(HookCodeLength, filteredColors(HookColors)) :
        useGameState(initialMode, HookCodeLength, HookMaxGuesses, HookColors,
                     secretCode)

\* changeMode(newMode): bumpState is the one of the render the handler was
\* made in, so it runs with the mode before the change
changeMode ==
    \E newMode \in {"normal", "evil"} :
        /\ gameMode' = newMode
        /\ bumpState([NoCall EXCEPT !.op = "changeMode"],
                     withGuesses(gameBoard, gameBoard.guesses))

\* setGuessPeg(pegIndex, color, guessIndex), guessIndex -1 when not given:
\* a peg of the current row is set to red, or the first peg of a row is
\* taken off
setGuessPeg ==
    \E guessIndex \in -1..(Len(gameBoard.guesses) - 1),
       pegIndex \in 0..(HookCodeLength - 1), color \in {"red", "empty"} :
        LET targetGuessIndex == IF guessIndex # -1 THEN guessIndex
                                ELSE Len(gameBoard.guesses) - 1
            rows == gameBoard.guesses
        IN  /\ \/ guessIndex = -1 /\ color = "red"
               \/ guessIndex # -1 /\ color = "empty" /\ pegIndex = 0
            /\ pegIndex <= Len(rows[targetGuessIndex + 1].pegs)
            /\ gameBoard' = withGuesses(gameBoard,
                   [rows EXCEPT ![targetGuessIndex + 1] =
                       setPeg(rows[targetGuessIndex + 1], pegIndex, color)])
            /\ call' = [NoCall EXCEPT !.op = "setGuessPeg"]
            /\ UNCHANGED <<solutions, codeLength, gameMode, gameOver, won>>

\* GameBoard.deleteGuess(guessIndex) of models/GameBoard.ts, guessIndex
\* 0-based
boardDeleteGuess(board, guessIndex) ==
    IF guessIndex >= Len(board.guesses) THEN board
    ELSE LET updatedGuesses ==
                 SelectSeq([i \in 1..Len(board.guesses) |->
                               [index |-> i - 1, guess |-> board.guesses[i]]],
                           LAMBDA e : e.index # guessIndex)
             kept == [k \in 1..Len(updatedGuesses) |-> updatedGuesses[k].guess]
         IN  withGuesses(board,
                 IF Len(kept) = 0
                 THEN <<createEmpty(board.gameRules.codeLength)>> ELSE kept)

\* deleteGuess(guessIndex) of the hook
deleteGuess ==
    \E guessIndex \in 0..Len(gameBoard.guesses) :
        /\ call' = [NoCall EXCEPT !.op = "deleteGuess"]
        /\ IF guessIndex >= Len(gameBoard.guesses)
           THEN UNCHANGED gameBoard
           ELSE gameBoard' = boardDeleteGuess(gameBoard, guessIndex)
        /\ UNCHANGED <<solutions, codeLength, gameMode, gameOver, won>>

\* pushGuess(pegs): a row is added only while the board has fewer than
\* MaxRows rows
pushGuess ==
    \E pegs \in PushInputs :
        LET this == [NoCall EXCEPT !.op = "pushGuess"]
            rows == gameBoard.guesses
            hasCurrentGuessFeedback == Len(rows[Len(rows)].feedback) > 0
        IN  /\ UNCHANGED gameMode
            /\ IF gameOver
               THEN /\ call' = this
                    /\ UNCHANGED <<solutions, codeLength, gameBoard, gameOver, won>>
               ELSE IF hasCurrentGuessFeedback
               THEN /\ Len(rows) < MaxRows
                    /\ bumpState(this, withGuesses(gameBoard,
                           Append(rows, [pegs |-> pegs, feedback |-> <<>>])))
               ELSE bumpState(this, withGuesses(gameBoard,
                        [rows EXCEPT ![Len(rows)].pegs = pegs]))

\* pushResponse(feedback, guessIndex) called by the player
callPushResponse ==
    \E feedback \in ResponseInputs,
       guessIndex \in -1..(Len(gameBoard.guesses) - 1) :
        /\ UNCHANGED gameMode
        /\ pushResponse([NoCall EXCEPT !.op = "pushResponse",
                                       !.ret = guessIndex],
                        feedback, guessIndex)

\* submitGuess(): the feedback is the evil one or the evaluation against
\* the secret code, and pushResponse stores it
submitGuess ==
    LET currentGuess == gameBoard.guesses[Len(gameBoard.guesses)]
        guess == currentGuess.pegs
        feedback == IF gameMode = "evil"
                    THEN getEvilFeedback(allSolutions(solutions), guess).feedback
                    ELSE evaluateGuess(guess, gameBoard.secretCode)
        this == [NoCall EXCEPT !.op = "submitGuess", !.pegs = guess,
                               !.again = gameOver]
    IN  /\ UNCHANGED gameMode
        /\ IF gameOver \/ ~isComplete(currentGuess)
           THEN /\ call' = [this EXCEPT !.ret = -1]
                /\ UNCHANGED <<solutions, codeLength, gameBoard, gameOver, won>>
           ELSE pushResponse(this, feedback, -1)

HookNext ==
    \/ changeMode
    \/ setGuessPeg
    \/ deleteGuess
    \/ pushGuess
    \/ callPushResponse
    \/ submitGuess

HookSpec == HookInit /\ [][HookNext]_vars

(***************************************************************************)
(* bumpState on its own, in normal mode: the hook returns it as            *)
(* setGameBoard, so a caller gives it a board with any rows.               *)
(***************************************************************************)
ReplayColors == <<"red", "blue", "green", "empty">>

\* the rows of the boards given: all pegs red, green after a red peg, blue
\* after a hole, or a single red peg, unanswered or answered
RowInputs ==
    [pegs : {[i \in 1..HookCodeLength |-> "red"],
             [i \in 1..HookCodeLength |-> IF i = 1 THEN "red" ELSE "green"],
             [i \in 1..HookCodeLength |-> IF i = 1 THEN "empty" ELSE "blue"],
             <<"red">>},
     feedback : {<<>>, [i \in 1..HookCodeLength |-> "correct"]}]

\* the first render of a hook in normal mode
ReplayInit ==
    \E secretCode \in generateRandomCode(HookCodeLength, filteredColors(ReplayColors)) :
        useGameState("normal", HookCodeLength, HookMaxGuesses, ReplayColors,
                     secretCode)

\* setGameBoard(board): the board of the hook with other rows, given after
\* the first render; bumpState resets the service before it replays, so
\* what was replayed before does not matter
setGameBoard ==
    \E rows \in SeqsOf(RowInputs, 1, MaxRounds) :
        /\ call.op = "useGameState"
        /\ UNCHANGED gameMode
        /\ bumpState([NoCall EXCEPT !.op = "setGameBoard"],
                     withGuesses(gameBoard, rows))

ReplayNext == setGameBoard

ReplaySpec == ReplayInit /\ [][ReplayNext]_vars

\* bumpState ran in the mode given
Bumped(mode) == call.mode = mode /\ call.op # "useGameState"

\* C26: in normal mode, after bumpState replayed the rows of a board, the
\* secret code is a member of the solution space, so the space is not
\* empty; a throw of applyGuessAndFeedback in the replay leaves it so too.
C26_SecretStaysInSpace ==
    Bumped("normal") =>
        /\ gameBoard.secretCode \in Codes(solutions)
        /\ Len(solutions) > 0

\* bumpState replayed two complete rows in normal mode and they narrowed
\* the space
C26_Witness ==
    /\ Bumped("normal")
    /\ call.err = "none"
    /\ Len(call.rows) = 2
    /\ \A i \in 1..2 : isComplete(call.rows[i])
    /\ call.rows[1].pegs # call.rows[2].pegs
    /\ Len(solutions) < Len(call.pre)

\* the rows of a list that are complete and have feedback, by their
\* 1-based index
answeredRows(rows) ==
    SelectSeq([i \in 1..Len(rows) |-> i],
              LAMBDA i : isComplete(rows[i]) /\ Len(rows[i].feedback) > 0)

\* C27: in evil mode, bumpState stores response k of processGuessSeries on
\* the k-th row that is complete and has feedback, also when a row that is
\* incomplete or has no feedback precedes it.
C27_ResponsesOnTheirRows ==
    (Bumped("evil") /\ call.err = "none") =>
        \A k \in 1..Len(call.out) :
            gameBoard.guesses[answeredRows(call.rows)[k]].feedback = call.out[k]

\* the rows of a board that were answered: their feedback has a peg that
\* is not 'empty'
answeredCount(rows) ==
    Cardinality({i \in 1..Len(rows) :
        \E j \in 1..Len(rows[i].feedback) : rows[i].feedback[j] # "empty"})

\* C28: in normal mode, submitGuess of a complete guess equal to the secret
\* code leaves gameOver and won true; submitGuess of another guess, once
\* maxGuesses rows are answered, leaves gameOver true and won false.
C28_SubmitEndsGame ==
    (call.op = "submitGuess" /\ Bumped("normal") /\ call.err = "none") =>
        /\ (call.pegs = gameBoard.secretCode => gameOver /\ won)
        /\ ((/\ call.pegs # gameBoard.secretCode
             /\ answeredCount(gameBoard.guesses) >= gameBoard.gameRules.maxGuesses)
               => gameOver /\ ~won)

(***************************************************************************)
(* The boards on their own: GameBoard of models/GameBoard.ts and the       *)
(* mode-aware GameBoard, which holds gameMode, gameOver and won itself.    *)
(* The variable gameBoard holds the board the last method returned.        *)
(***************************************************************************)
\* new GameBoard(secretCode, guesses, gameMode, gameOver, won,
\* possibleSolutions, codeLength, maxGuesses, availableColors), mode-aware
ModeAwareGameBoard(secretCode, guesses, mode, over, isWon, possibleSolutions, length, maxGuesses, availableColors) ==
    [secretCode |-> secretCode,
     guesses |-> IF Len(guesses) = 0 THEN <<createEmpty(length)>> ELSE guesses,
     gameMode |-> mode, gameOver |-> over, won |-> isWon,
     possibleSolutions |-> possibleSolutions,
     codeLength |-> length, maxGuesses |-> maxGuesses,
     availableColors |-> availableColors]

\* the mode-aware board with other rows, gameOver and won
modeAwareWith(board, guesses, over, isWon) ==
    ModeAwareGameBoard(board.secretCode, guesses, board.gameMode, over, isWon,
                       board.possibleSolutions, board.codeLength,
                       board.maxGuesses, board.availableColors)

\* the board is a mode-aware one
IsModeAware(board) == "gameRules" \notin DOMAIN board

\* the rows of a list but the one at guessIndex (0-based)
without(guesses, guessIndex) ==
    [k \in 1..(Len(guesses) - 1) |->
        IF k <= guessIndex THEN guesses[k] ELSE guesses[k + 1]]

\* modifyGuess(guessIndex, pegIndex, color) of the mode-aware board
modeAwareModifyGuess(board, guessIndex, pegIndex, color) ==
    IF guessIndex < 0 \/ guessIndex >= Len(board.guesses) THEN board
    ELSE modeAwareWith(board,
             [board.guesses EXCEPT ![guessIndex + 1] = setPeg(@, pegIndex, color)],
             board.gameOver, board.won)

\* setGuessFeedback(guessIndex, feedback) of the mode-aware board
modeAwareSetGuessFeedback(board, guessIndex, feedback) ==
    IF guessIndex < 0 \/ guessIndex >= Len(board.guesses) THEN board
    ELSE LET updatedGuesses ==
                 [board.guesses EXCEPT ![guessIndex + 1].feedback = feedback]
             isCorrect == \A i \in 1..Len(feedback) : feedback[i] = "correct"
             isGameOver == isCorrect \/ Len(updatedGuesses) >= board.maxGuesses
         IN  modeAwareWith(board, updatedGuesses, isGameOver, isCorrect)

\* deleteGuess(guessIndex) of the mode-aware board
modeAwareDeleteGuess(board, guessIndex) ==
    IF guessIndex < 0 \/ guessIndex >= Len(board.guesses) THEN board
    ELSE IF Len(board.guesses) = 1
    THEN modeAwareWith(board, <<createEmpty(board.codeLength)>>, FALSE, FALSE)
    ELSE modeAwareWith(board, without(board.guesses, guessIndex), FALSE, FALSE)

\* evaluateCurrentGuess() of the mode-aware board
evaluateCurrentGuess(board) ==
    LET currentGuess == board.guesses[Len(board.guesses)]
    IN  IF ~isComplete(currentGuess) \/ board.gameMode # "normal" THEN <<>>
        ELSE evaluateGuess(currentGuess.pegs, board.secretCode)

\* submitGuess(feedback) of the mode-aware board; given is FALSE when no
\* feedback is passed
modeAwareSubmitGuess(board, given, feedback) ==
    LET currentGuess == board.guesses[Len(board.guesses)]
        actualFeedback == IF given THEN feedback ELSE evaluateCurrentGuess(board)
        isCorrect == \A i \in 1..Len(actualFeedback) : actualFeedback[i] = "correct"
        isGameOver == isCorrect \/ Len(board.guesses) >= board.maxGuesses
        updatedGuesses ==
            [board.guesses EXCEPT ![Len(board.guesses)].feedback = actualFeedback]
    IN  IF board.gameOver \/ ~isComplete(currentGuess) THEN board
        ELSE modeAwareWith(board,
                 IF isGameOver THEN updatedGuesses
                 ELSE Append(updatedGuesses, createEmpty(board.codeLength)),
                 isGameOver, isCorrect)

\* modifyGuess(guessIndex, pegIndex, color) of models/GameBoard.ts, for a
\* guessIndex that is not negative
boardModifyGuess(board, guessIndex, pegIndex, color) ==
    IF guessIndex >= Len(board.guesses) THEN board
    ELSE withGuesses(board,
             [board.guesses EXCEPT ![guessIndex + 1] = setPeg(@, pegIndex, color)])

\* setGuessFeedback(guessIndex, feedback) of models/GameBoard.ts
boardSetGuessFeedback(board, guessIndex, feedback) ==
    IF guessIndex < 0 \/ guessIndex >= Len(board.guesses) THEN board
    ELSE withGuesses(board,
             [board.guesses EXCEPT ![guessIndex + 1].feedback = feedback])

\* the secret codes, the indices and the feedback given to the boards
BoardSecrets ==
    {[i \in 1..MaxCodeLength |-> "red"],
     [i \in 1..MaxCodeLength |-> IF i = 1 THEN "red" ELSE "blue"]}

BoardColors == <<"red", "blue", "empty">>

IndexInputs == -1..Len(gameBoard.guesses)

BoardFeedbackInputs ==
    ResponseInputs \cup {[i \in 1..MaxCodeLength |-> "empty"]}

\* a board of either class constructed with an empty list of guesses
BoardInit ==
    /\ solutions = <<>>
    /\ codeLength = <<>>
    /\ gameMode = "normal"
    /\ gameOver = FALSE
    /\ won = FALSE
    /\ call = [NoCall EXCEPT !.op = "new GameBoard"]
    /\ \E secretCode \in BoardSecrets :
          \/ gameBoard = GameBoard(secretCode, <<>>, MaxCodeLength, MaxRounds,
                                   BoardColors)
          \/ \E mode \in {"normal", "evil"} :
                gameBoard = ModeAwareGameBoard(secretCode, <<>>, mode, FALSE, FALSE,
                                               <<>>, MaxCodeLength, MaxRounds,
                                               BoardColors)

\* the method returned the board given; the call record holds the index
\* given as ret and the number of rows before the call as length
returned(op, guessIndex, board) ==
    /\ gameBoard' = board
    /\ call' = [NoCall EXCEPT !.op = op, !.ret = guessIndex,
                              !.length = Len(gameBoard.guesses)]
    /\ UNCHANGED <<solutions, codeLength, gameMode, gameOver, won>>

\* modifyGuess: a peg is set to red, or the first peg of a row is taken
\* off; a negative guessIndex makes models/GameBoard.ts throw a TypeError
callModifyGuess ==
    \E guessIndex \in IndexInputs, pegIndex \in 0..(MaxCodeLength - 1),
       color \in {"red", "empty"} :
        /\ color = "empty" => pegIndex = 0
        /\ IF IsModeAware(gameBoard)
           THEN returned("modifyGuess", guessIndex,
                         modeAwareModifyGuess(gameBoard, guessIndex, pegIndex, color))
           ELSE IF guessIndex < 0
           THEN /\ call' = [NoCall EXCEPT !.op = "modifyGuess", !.ret = guessIndex,
                                          !.err = "TypeError"]
                /\ UNCHANGED <<solutions, codeLength, hook>>
           ELSE returned("modifyGuess", guessIndex,
                         boardModifyGuess(gameBoard, guessIndex, pegIndex, color))

callSetGuessFeedback ==
    \E guessIndex \in IndexInputs, feedback \in BoardFeedbackInputs :
        returned("setGuessFeedback", guessIndex,
                 IF IsModeAware(gameBoard)
                 THEN modeAwareSetGuessFeedback(gameBoard, guessIndex, feedback)
                 ELSE boardSetGuessFeedback(gameBoard, guessIndex, feedback))

callDeleteGuess ==
    \E guessIndex \in IndexInputs :
        returned("deleteGuess", guessIndex,
                 IF IsModeAware(gameBoard)
                 THEN modeAwareDeleteGuess(gameBoard, guessIndex)
                 ELSE boardDeleteGuess(gameBoard, guessIndex))

\* submitGuess: only the mode-aware board has it
callSubmitGuess ==
    /\ IsModeAware(gameBoard)
    /\ \E given \in BOOLEAN, feedback \in BoardFeedbackInputs :
          /\ ~given => feedback = [i \in 1..MaxCodeLength |-> "empty"]
          /\ returned("submitGuess", IF given THEN 1 ELSE 0,
                      modeAwareSubmitGuess(gameBoard, given, feedback))

BoardNext ==
    \/ callModifyGuess
    \/ callSetGuessFeedback
    \/ callDeleteGuess
    \/ callSubmitGuess

BoardSpec == BoardInit /\ [][BoardNext]_vars

\* the code length of a board of either class
lengthOf(board) ==
    IF IsModeAware(board) THEN board.codeLength ELSE board.gameRules.codeLength

\* C29: a GameBoard always holds at least one guess row, after its
\* construction with an empty list and after every modifyGuess,
\* setGuessFeedback, deleteGuess and submitGuess; deleteGuess of the only
\* row leaves one row of codeLength 'empty' pegs.
C29_AtLeastOneRow ==
    /\ Len(gameBoard.guesses) >= 1
    /\ (call.op = "deleteGuess" /\ call.ret = 0 /\ call.length = 1) =>
          /\ Len(gameBoard.guesses) = 1
          /\ gameBoard.guesses[1].pegs
               = [i \in 1..lengthOf(gameBoard) |-> "empty"]

\* the only row of a board was deleted
C29_Witness ==
    /\ call.op = "deleteGuess"
    /\ call.ret = 0
    /\ call.length = 1
    /\ gameBoard.guesses = <<createEmpty(lengthOf(gameBoard))>>

(***************************************************************************)
(* The solution explorer: the static SolutionService.predictFeedback on    *)
(* the mode-aware board, as the current-guess effect of                    *)
(* useSolutionExplorer calls it.                                           *)
(***************************************************************************)
\* guesses.reduce(...) of the static calculatePossibleSolutions over the
\* first n records: every record filters
RECURSIVE reduceAllGuesses(_, _, _)
reduceAllGuesses(guesses, n, allCodes) ==
    IF n = 0 THEN allCodes
    ELSE filterSolutions(reduceAllGuesses(guesses, n - 1, allCodes),
                         guesses[n].guess, guesses[n].feedback)

\* SolutionService.calculatePossibleSolutions(guesses, codeLength,
\* availableColors), static
staticCalculatePossibleSolutions(guesses, length, availableColors) ==
    LET allCodes == generateAllCodes(length, filteredColors(availableColors))
    IN  IF Len(guesses) = 0 THEN allCodes
        ELSE reduceAllGuesses(guesses, Len(guesses), allCodes)

\* SolutionService.predictFeedback(board, guessColors)
predictFeedback(board, guessColors) ==
    IF \E i \in 1..Len(guessColors) : guessColors[i] = "empty" THEN <<>>
    ELSE LET processedGuesses ==
                 [k \in 1..Len(board.guesses) |->
                     [guess |-> board.guesses[k].pegs,
                      feedback |-> board.guesses[k].feedback]]
             possibleSolutions ==
                 staticCalculatePossibleSolutions(processedGuesses, board.codeLength,
                                                  board.availableColors)
         IN  groupSolutionsByFeedback(possibleSolutions, guessColors)

\* get hasCurrentGuessFeedback of the mode-aware board
hasCurrentGuessFeedback(board) ==
    LET feedback == board.guesses[Len(board.guesses)].feedback
    IN  Len(feedback) > 0 /\ \E i \in 1..Len(feedback) : feedback[i] # "empty"

\* the current-guess effect of useSolutionExplorer, run after the board
\* changed: ret is 1 when it called predictFeedback, out is the groups set
currentGuessEffect ==
    /\ IsModeAware(gameBoard)
    /\ call.op # "predictFeedback"
    /\ LET currentGuess == gameBoard.guesses[Len(gameBoard.guesses)]
           this == [NoCall EXCEPT !.op = "predictFeedback",
                                  !.pegs = currentGuess.pegs]
       IN  IF /\ isComplete(currentGuess)
              /\ ~hasCurrentGuessFeedback(gameBoard)
              /\ ~gameBoard.gameOver
           THEN call' = [this EXCEPT !.ret = 1,
                                     !.out = predictFeedback(gameBoard,
                                                             currentGuess.pegs)]
           ELSE call' = this
    /\ UNCHANGED <<solutions, codeLength, hook>>

ExplorerNext == BoardNext \/ currentGuessEffect

ExplorerSpec == BoardInit /\ [][ExplorerNext]_vars

\* the codes of a board's rules that agree with every answered row of the
\* board: a row is answered when its feedback has a peg that is not 'empty'
CandidatesOf(board) ==
    {c \in [1..board.codeLength -> Usable(board.availableColors)] :
        \A k \in 1..Len(board.guesses) :
            (\E j \in 1..Len(board.guesses[k].feedback) :
                board.guesses[k].feedback[j] # "empty")
              => Histogram(evaluateGuess(board.guesses[k].pegs, c))
                   = Histogram(board.guesses[k].feedback)}

\* C30: predictFeedback(board, guess) for a complete guess returns the
\* partition by the guess of the codes that agree with every answered row
\* of the board; while the current row is complete and unanswered the
\* groups hold those codes, their counts sum to the number of those codes,
\* and there is a group when there is such a code.
C30_PredictPartitionsCandidates ==
    (call.op = "predictFeedback" /\ call.ret = 1) =>
        LET groups == call.out
            candidates == CandidatesOf(gameBoard)
        IN  /\ UNION {Members(groups[k]) : k \in 1..Len(groups)} = candidates
            /\ SumCounts(groups, Len(groups)) = Cardinality(candidates)
            /\ candidates # {} => Len(groups) > 0
            /\ \A k \in 1..Len(groups) : \A c \in Members(groups[k]) :
                  Histogram(evaluateGuess(call.pegs, c))
                    = Histogram(groups[k].feedback)

====
